---------------------------- MODULE Spec2Model ----------------------------
(***************************************************************************)
(* A model of gnubgparser: the SGF (tree format) character stream, parser  *)
(* and converter, the move formatter, and the Jellyfish MAT (flat format)  *)
(* parser.                                                                 *)
(*                                                                         *)
(* Text is modelled as sequences of one-character strings, so that every   *)
(* conversion (parsing, splitting, trimming, formatting) is computed       *)
(* character by character as the Go code computes it.  Property names are  *)
(* strings built by concatenation.                                         *)
(***************************************************************************)
EXTENDS Integers, Sequences, FiniteSets, TLC

VARIABLES
    input,      \* SGF: the content of the io.Reader handed to ParseSGF
    p,          \* SGF: the SGFParser struct (reader offset, char, hasChar)
    pc,         \* SGF: the function whose loop the parser is in
    games,      \* SGF: parseGameTree's local 'games'
    root,       \* SGF: parseGame's 'root' with its chain of first children
    depth,      \* SGF: the paren depth of the variation being skipped
    node,       \* SGF: parseNode's 'node.Properties'
    prop,       \* SGF: parseProperty's locals 'name' and 'values'
    val,        \* SGF: parsePropertyValue's locals 'value' and 'escaped'
    match,      \* SGF: the *Match returned by ParseSGF (NoMatch for nil)
    err,        \* SGF: the error returned by ParseSGF ("" for nil)
    call,       \* pure functions: the last call made, with its result
    lines,      \* MAT: the lines the bufio.Scanner will deliver
    m           \* MAT: the state of MATParser.parse and parseGame

vars == <<input, p, pc, games, root, depth, node, prop, val, match, err,
          call, lines, m>>

sgfVars == <<input, p, pc, games, root, depth, node, prop, val, match, err>>

(***************************************************************************)
(* Bounds of the model.                                                    *)
(***************************************************************************)
MaxNum == 2        \* numbers written in MI[...] values range over 0..MaxNum
MaxPairs == 4      \* point-code pairs written in a B[...] move value
MaxTrees == 2      \* top-level game trees in one input

(***************************************************************************)
(* Characters and strings.                                                 *)
(***************************************************************************)
NUL == ""          \* rune 0, the zero value of SGFParser.char

Digits == <<"0", "1", "2", "3", "4", "5", "6", "7", "8", "9">>

Lower == <<"a", "b", "c", "d", "e", "f", "g", "h", "i", "j", "k", "l", "m",
           "n", "o", "p", "q", "r", "s", "t", "u", "v", "w", "x", "y", "z">>

Upper == <<"A", "B", "C", "D", "E", "F", "G", "H", "I", "J", "K", "L", "M",
           "N", "O", "P", "Q", "R", "S", "T", "U", "V", "W", "X", "Y", "Z">>

Range(s) == {s[i] : i \in DOMAIN s}

IndexOf(s, c) == CHOOSE i \in DOMAIN s : s[i] = c

IsDigit(c) == c \in Range(Digits)

IsLetter(c) == c \in Range(Lower) \cup Range(Upper)

IsSpace(c) == c \in {" ", "\t", "\n", "\r"}

DigitVal(c) == IndexOf(Digits, c) - 1

\* the lower-case form of one character (strings.ToLower on ASCII)
ToLowerChar(c) == IF c \in Range(Upper) THEN Lower[IndexOf(Upper, c)] ELSE c

ToLower(s) == [i \in DOMAIN s |-> ToLowerChar(s[i])]

\* s[from:] of Go, with 0-based 'from'
Drop(s, from) == SubSeq(s, from + 1, Len(s))

\* s[:to] of Go, with 0-based exclusive 'to'
Take(s, to) == SubSeq(s, 1, to)

HasPrefix(s, pre) == Len(s) >= Len(pre) /\ Take(s, Len(pre)) = pre

HasSuffix(s, suf) == Len(s) >= Len(suf) /\ Drop(s, Len(s) - Len(suf)) = suf

TrimSuffix(s, suf) == IF HasSuffix(s, suf) THEN Take(s, Len(s) - Len(suf)) ELSE s

RECURSIVE TrimLeftSet(_, _)
TrimLeftSet(s, cut) ==
    IF s # <<>> /\ Head(s) \in cut THEN TrimLeftSet(Tail(s), cut) ELSE s

RECURSIVE TrimRightSet(_, _)
TrimRightSet(s, cut) ==
    IF s # <<>> /\ s[Len(s)] \in cut THEN TrimRightSet(Take(s, Len(s) - 1), cut) ELSE s

\* strings.Trim(s, cutset)
Trim(s, cut) == TrimRightSet(TrimLeftSet(s, cut), cut)

\* strings.TrimSpace
TrimSpace(s) == Trim(s, {" ", "\t", "\n", "\r"})

\* the least 0-based index at or after 'from' where 'sep' starts in s, or -1
RECURSIVE IndexFrom(_, _, _)
IndexFrom(s, sep, from) ==
    IF from + Len(sep) > Len(s) THEN -1
    ELSE IF SubSeq(s, from + 1, from + Len(sep)) = sep THEN from
    ELSE IndexFrom(s, sep, from + 1)

\* strings.Split(s, sep) for a non-empty sep
RECURSIVE Split(_, _)
Split(s, sep) ==
    LET i == IndexFrom(s, sep, 0)
    IN  IF i < 0 THEN <<s>>
        ELSE <<Take(s, i)>> \o Split(Drop(s, i + Len(sep)), sep)

\* strings.SplitN(s, sep, 2)
SplitN2(s, sep) ==
    LET i == IndexFrom(s, sep, 0)
    IN  IF i < 0 THEN <<s>> ELSE <<Take(s, i), Drop(s, i + Len(sep))>>

\* strings.Fields: the maximal runs of non-space characters
RECURSIVE Fields(_)
Fields(s) ==
    LET t == TrimLeftSet(s, {" ", "\t", "\n", "\r"})
        n == IF \E i \in DOMAIN t : IsSpace(t[i])
             THEN (CHOOSE i \in DOMAIN t :
                      IsSpace(t[i]) /\ \A j \in 1..(i - 1) : ~IsSpace(t[j])) - 1
             ELSE Len(t)
    IN  IF t = <<>> THEN <<>> ELSE <<Take(t, n)>> \o Fields(Drop(t, n))

\* the value of a non-empty run of decimal digits
RECURSIVE DigitsVal(_)
DigitsVal(s) ==
    IF s = <<>> THEN 0 ELSE DigitsVal(Take(s, Len(s) - 1)) * 10 + DigitVal(s[Len(s)])

\* strconv.Atoi: an optional sign and at least one digit, nothing else
Atoi(s) ==
    LET body == IF s # <<>> /\ Head(s) \in {"+", "-"} THEN Tail(s) ELSE s
        ok   == body # <<>> /\ \A i \in DOMAIN body : IsDigit(body[i])
    IN  IF ~ok THEN [ok |-> FALSE, v |-> 0]
        ELSE [ok |-> TRUE,
              v  |-> IF Head(s) = "-" THEN 0 - DigitsVal(body) ELSE DigitsVal(body)]

\* A floating-point value is modelled by its value in thousandths, which is
\* exact for the decimal texts with at most three decimals; float32 and
\* float64 are not told apart.
FloatUnit == 10 * 10 * 10

\* the digits of a decimal fraction, as thousandths
FractionVal(frac) ==
    DigitsVal(Take(frac \o <<"0", "0", "0">>, 3))

\* strconv.ParseFloat of a decimal text: an optional sign, digits with an
\* optional point, at least one digit; any other text is a syntax error and
\* gives 0
ParseFloat(s) ==
    LET body == IF s # <<>> /\ Head(s) \in {"+", "-"} THEN Tail(s) ELSE s
        dot  == IndexFrom(body, <<".">>, 0)
        int  == IF dot < 0 THEN body ELSE Take(body, dot)
        frac == IF dot < 0 THEN <<>> ELSE Drop(body, dot + 1)
        ok   == /\ Len(int) + Len(frac) > 0
                /\ \A i \in DOMAIN int : IsDigit(int[i])
                /\ \A i \in DOMAIN frac : IsDigit(frac[i])
        abs  == DigitsVal(int) * FloatUnit + FractionVal(frac)
    IN  IF ~ok THEN [ok |-> FALSE, v |-> 0]
        ELSE [ok |-> TRUE, v |-> IF Head(s) = "-" THEN 0 - abs ELSE abs]

\* parseFloat32, its error dropped
parseFloat32(s) == ParseFloat(s).v

\* the decimal numeral of a natural number (used to write inputs)
RECURSIVE Itoa(_)
Itoa(n) == IF n < 10 THEN <<Digits[n + 1]>> ELSE Itoa(n \div 10) \o <<Digits[(n % 10) + 1]>>

RECURSIVE Concat(_)
Concat(ss) == IF ss = <<>> THEN <<>> ELSE Head(ss) \o Concat(Tail(ss))

(***************************************************************************)
(* The character stream of SGFParser.                                      *)
(***************************************************************************)
NewSGFParser == [reader |-> 0, char |-> NUL, hasChar |-> FALSE]

\* readChar without 'p.char = ch': the character read is not kept for
\* unreadChar
readCharNotSaved(in, q) ==
    IF q.hasChar
    THEN [p |-> [q EXCEPT !.hasChar = FALSE], ch |-> q.char, eof |-> FALSE]
    ELSE IF q.reader >= Len(in)
    THEN [p |-> q, ch |-> NUL, eof |-> TRUE]
    ELSE [p   |-> [q EXCEPT !.reader = @ + 1],
          ch  |-> in[q.reader + 1],
          eof |-> FALSE]

readChar(in, q) ==
    IF q.hasChar
    THEN [p |-> [q EXCEPT !.hasChar = FALSE], ch |-> q.char, eof |-> FALSE]
    ELSE IF q.reader >= Len(in)
    THEN [p |-> q, ch |-> NUL, eof |-> TRUE]
    ELSE [p   |-> [q EXCEPT !.reader = @ + 1, !.char = in[q.reader + 1]],
          ch  |-> in[q.reader + 1],
          eof |-> FALSE]

peekChar(in, q) ==
    IF q.hasChar
    THEN [p |-> q, ch |-> q.char, eof |-> FALSE]
    ELSE LET r == readChar(in, q)
         IN  IF r.eof THEN r
             ELSE [p   |-> [r.p EXCEPT !.char = r.ch, !.hasChar = TRUE],
                   ch  |-> r.ch,
                   eof |-> FALSE]

unreadChar(q) == [q EXCEPT !.hasChar = TRUE]

RECURSIVE skipWhitespace(_, _)
skipWhitespace(in, q) ==
    LET r == peekChar(in, q)
    IN  IF r.eof THEN r.p
        ELSE IF r.ch \in {" ", "\t", "\n", "\r"}
        THEN skipWhitespace(in, readChar(in, r.p).p)
        ELSE r.p

(***************************************************************************)
(* The tree parser.  A parser state is a record with the fields of         *)
(* sgfVars; each function below is one iteration of the loop of the Go     *)
(* function it is named after, on such a record.                           *)
(***************************************************************************)
NoMatch == [nil |-> TRUE]

EmptyNode == <<>>      \* make(map[string][]string): no property

\* node.Properties[name] = values
SetProperty(nd, name, values) ==
    [k \in DOMAIN nd \cup {name} |-> IF k = name THEN values ELSE nd[k]]

Fail(s, e) == [s EXCEPT !.pc = "error", !.err = e, !.match = NoMatch]

\* parseGameTree's loop; a '(' enters parseGame, which reads it
parseGameTree(s) ==
    LET q == skipWhitespace(s.input, s.p)
        r == peekChar(s.input, q)
    IN  IF r.eof THEN [s EXCEPT !.p = r.p, !.pc = "ParseSGF"]
        ELSE IF r.ch = "("
        THEN LET rd == readChar(s.input, r.p)
             IN  IF rd.eof \/ rd.ch # "("
                 THEN Fail([s EXCEPT !.p = rd.p], "expected '(' at start of game")
                 ELSE [s EXCEPT !.p = rd.p, !.root = <<EmptyNode>>, !.pc = "parseGame"]
        ELSE [s EXCEPT !.p = r.p, !.pc = "ParseSGF"]

\* parseGame's loop: ')' ends the game, ';' enters parseNode, '(' opens a
\* variation
parseGame(s) ==
    LET q == skipWhitespace(s.input, s.p)
        r == peekChar(s.input, q)
    IN  IF r.eof THEN Fail([s EXCEPT !.p = r.p], "EOF")
        ELSE IF r.ch = ")"
        THEN [s EXCEPT !.p = readChar(s.input, r.p).p,
                       !.games = Append(s.games, s.root),
                       !.pc = "parseGameTree"]
        ELSE IF r.ch = ";"
        THEN LET rd == readChar(s.input, r.p)
             IN  IF rd.eof \/ rd.ch # ";"
                 THEN Fail([s EXCEPT !.p = rd.p], "expected ';' at start of node")
                 ELSE [s EXCEPT !.p = rd.p, !.node = EmptyNode, !.pc = "parseNode"]
        ELSE IF r.ch = "("
        THEN [s EXCEPT !.p = readChar(s.input, r.p).p, !.depth = 1, !.pc = "variation"]
        ELSE Fail([s EXCEPT !.p = r.p], "unexpected character in game tree")

\* the loop of parseGame that skips a variation
skipVariation(s) ==
    LET r == readChar(s.input, s.p)
        d == IF r.ch = "(" THEN s.depth + 1
             ELSE IF r.ch = ")" THEN s.depth - 1
             ELSE s.depth
    IN  IF r.eof THEN Fail([s EXCEPT !.p = r.p], "EOF")
        ELSE [s EXCEPT !.p = r.p, !.depth = d,
                       !.pc = IF d > 0 THEN "variation" ELSE "parseGame"]

\* parseNode's loop: a letter enters parseProperty; anything else ends the
\* node, which parseGame makes the root (while the root has no property) or
\* the child of the last node
parseNode(s) ==
    LET q == skipWhitespace(s.input, s.p)
        r == peekChar(s.input, q)
    IN  IF r.eof THEN Fail([s EXCEPT !.p = r.p], "EOF")
        ELSE IF IsLetter(r.ch)
        THEN [s EXCEPT !.p = r.p, !.prop = [name |-> "", values |-> <<>>],
                       !.pc = "parseProperty"]
        ELSE [s EXCEPT !.p = r.p,
                       !.root = IF DOMAIN s.root[1] = {}
                                THEN <<s.node>>
                                ELSE Append(s.root, s.node),
                       !.pc = "parseGame"]

\* a name loop that puts the character back and does not leave
parsePropertyNameStays(s) ==
    LET r == readChar(s.input, s.p)
    IN  IF r.eof THEN Fail([s EXCEPT !.p = r.p], "EOF")
        ELSE IF IsLetter(r.ch)
        THEN LET nm == s.prop.name \o r.ch
             IN  [s EXCEPT !.p = r.p, !.prop.name = nm,
                           !.pc = IF Len(nm) >= 2 THEN "propertyValues"
                                  ELSE "parseProperty"]
        ELSE [s EXCEPT !.p = unreadChar(r.p)]

\* parseProperty's first loop: the name, at most two letters
parsePropertyName(s) ==
    LET r == readChar(s.input, s.p)
    IN  IF r.eof THEN Fail([s EXCEPT !.p = r.p], "EOF")
        ELSE IF IsLetter(r.ch)
        THEN LET nm == s.prop.name \o r.ch
             IN  [s EXCEPT !.p = r.p, !.prop.name = nm,
                           !.pc = IF Len(nm) >= 2 THEN "propertyValues"
                                  ELSE "parseProperty"]
        ELSE [s EXCEPT !.p = unreadChar(r.p), !.pc = "propertyValues"]

\* parseProperty's second loop: '[' enters parsePropertyValue, which reads
\* it; anything else ends the property, which parseNode stores
parsePropertyValues(s) ==
    LET q == skipWhitespace(s.input, s.p)
        r == peekChar(s.input, q)
    IN  IF r.eof THEN Fail([s EXCEPT !.p = r.p], "EOF")
        ELSE IF r.ch = "["
        THEN LET rd == readChar(s.input, r.p)
             IN  IF rd.eof \/ rd.ch # "["
                 THEN Fail([s EXCEPT !.p = rd.p], "expected '[' at start of property value")
                 ELSE [s EXCEPT !.p = rd.p, !.val = [value |-> <<>>, escaped |-> FALSE],
                                !.pc = "parsePropertyValue"]
        ELSE [s EXCEPT !.p = r.p,
                       !.node = SetProperty(s.node, s.prop.name, s.prop.values),
                       !.pc = "parseNode"]

\* parsePropertyValue's loop with the escaping backslash written to the value
parsePropertyValueKeepsBackslash(s) ==
    LET r == readChar(s.input, s.p)
    IN  IF r.eof THEN Fail([s EXCEPT !.p = r.p], "EOF")
        ELSE IF s.val.escaped
        THEN [s EXCEPT !.p = r.p, !.val = [value |-> Append(s.val.value, r.ch),
                                           escaped |-> FALSE]]
        ELSE IF r.ch = "\\"
        THEN [s EXCEPT !.p = r.p, !.val.escaped = TRUE,
                       !.val.value = Append(s.val.value, r.ch)]
        ELSE IF r.ch = "]"
        THEN [s EXCEPT !.p = r.p,
                       !.prop.values = Append(s.prop.values, s.val.value),
                       !.pc = "propertyValues"]
        ELSE [s EXCEPT !.p = r.p, !.val.value = Append(s.val.value, r.ch)]

\* parsePropertyValue's loop
parsePropertyValue(s) ==
    LET r == readChar(s.input, s.p)
    IN  IF r.eof THEN Fail([s EXCEPT !.p = r.p], "EOF")
        ELSE IF s.val.escaped
        THEN [s EXCEPT !.p = r.p, !.val = [value |-> Append(s.val.value, r.ch),
                                           escaped |-> FALSE]]
        ELSE IF r.ch = "\\"
        THEN [s EXCEPT !.p = r.p, !.val.escaped = TRUE]
        ELSE IF r.ch = "]"
        THEN [s EXCEPT !.p = r.p,
                       !.prop.values = Append(s.prop.values, s.val.value),
                       !.pc = "propertyValues"]
        ELSE [s EXCEPT !.p = r.p, !.val.value = Append(s.val.value, r.ch)]


(***************************************************************************)
(* The match model (types.go).  A Go struct created without a field has    *)
(* the field's zero value.                                                 *)
(***************************************************************************)
MoveSlots == 8     \* the length of MoveRecord.Move
Bar == 24
Off == 25

MoveTypeNormal == "move"
MoveTypeDouble == "double"
MoveTypeTake == "take"
MoveTypeDrop == "drop"
MoveTypeSetBoard == "setboard"
MoveTypeSetDice == "setdice"
MoveTypeSetCube == "setcube"
MoveTypeSetCubePos == "setcubepos"

Nil == [nil |-> TRUE]

ZeroMove == [i \in 1..MoveSlots |-> 0]

\* MoveRecord{}
ZeroMoveRecord ==
    [Type |-> "", Player |-> 0, Dice |-> <<0, 0>>, Move |-> ZeroMove,
     MoveString |-> <<>>, CubeValue |-> 0, CubeOwner |-> 0, Position |-> Nil,
     Analysis |-> Nil, CubeAnalysis |-> Nil, Luck |-> Nil, Skill |-> Nil,
     Comment |-> <<>>]

\* MoveOption{}
ZeroMoveOption ==
    [Move |-> ZeroMove, MoveString |-> <<>>, Equity |-> 0, Player1WinRate |-> 0,
     Player1GammonRate |-> 0, Player1BackgammonRate |-> 0, Player2WinRate |-> 0,
     Player2GammonRate |-> 0, Player2BackgammonRate |-> 0, AnalysisDepth |-> 0]

\* CubeAnalysis{}
ZeroCubeAnalysis ==
    [Player1WinRate |-> 0, Player1GammonRate |-> 0, Player1BackgammonRate |-> 0,
     Player2WinRate |-> 0, Player2GammonRate |-> 0, Player2BackgammonRate |-> 0,
     CubelessEquity |-> 0, CubefulNoDouble |-> 0, CubefulDoubleTake |-> 0,
     CubefulDoublePass |-> 0, TooGoodPoint |-> 0, BestAction |-> "",
     WrongPassTakePercent |-> 0, AnalysisDepth |-> 0]

\* Game{}
ZeroGame ==
    [GameNumber |-> 0, Score |-> <<0, 0>>, Variation |-> "", Crawford |-> FALSE,
     CrawfordGame |-> FALSE, Jacoby |-> FALSE, CubeEnabled |-> FALSE,
     AutoDoubles |-> 0, Winner |-> 0, Points |-> 0, Resigned |-> FALSE,
     Moves |-> <<>>]

MetadataFields ==
    {"Player1", "Player2", "Rating1", "Rating2", "Event", "Round", "Place",
     "Date", "Annotator", "Comment", "Application"}

\* MatchMetadata{}
ZeroMetadata == [f \in MetadataFields \cup {"MatchLength"} |->
                    IF f = "MatchLength" THEN 0 ELSE <<>>]

\* Match{}
ZeroMatch == [Metadata |-> ZeroMetadata, Games |-> <<>>]

\* the grave accent, ASCII 0x60, which a TLA+ string cannot hold
Grave == "0x60"

\* the characters 'a'+k for k in -6..29 (ASCII 0x5B..0x7E)
AsciiFrom91 == <<"[", "\\", "]", "^", "_", Grave>> \o Lower \o <<"{", "|", "}", "~">>

pointToString(point) ==
    CASE point = Bar -> <<"b", "a", "r">>
      [] point = Off -> <<"o", "f", "f">>
      [] OTHER -> <<AsciiFrom91[point + 7]>>

\* the loop of FormatMove from slot i (1-based), which stops at a -1
RECURSIVE FormatMoveFrom(_, _, _)
FormatMoveFrom(move, player, i) ==
    IF i > MoveSlots \/ move[i] = -1 THEN <<>>
    ELSE LET from == IF player = 1 THEN 23 - move[i] ELSE move[i]
             to   == IF player = 1 THEN 23 - move[i + 1] ELSE move[i + 1]
         IN  (IF i > 1 THEN <<" ">> ELSE <<>>)
             \o pointToString(from) \o <<"/">> \o pointToString(to)
             \o FormatMoveFrom(move, player, i + 2)

FormatMove(move, player) ==
    IF move[1] = -1 THEN <<"n", "o", " ", "m", "o", "v", "e">>
    ELSE FormatMoveFrom(move, player, 1)

(***************************************************************************)
(* The converter.                                                          *)
(***************************************************************************)
getProperty(nd, name) ==
    IF name \in DOMAIN nd /\ Len(nd[name]) > 0 THEN nd[name][1] ELSE <<>>

getPropertyInt(nd, name) ==
    IF getProperty(nd, name) = <<>> THEN 0 ELSE Atoi(getProperty(nd, name)).v

hasProperty(nd, name) == name \in DOMAIN nd

\* a decoding that knows the board points only
decodePointBoardOnly(ch) ==
    IF ch \in Range(SubSeq(Lower, 1, 24)) THEN IndexOf(Lower, ch) - 1 ELSE -1

decodePoint(ch) ==
    IF ch \in Range(SubSeq(Lower, 1, 24)) THEN IndexOf(Lower, ch) - 1
    ELSE IF ch = "y" THEN Bar
    ELSE IF ch = "z" THEN Off
    ELSE -1

\* the loop of parseEncodedMove: i is the 0-based offset in 'encoded',
\* moveIdx the 0-based slot
RECURSIVE encodedMoveLoop(_, _, _, _)
encodedMoveLoop(encoded, move, i, moveIdx) ==
    IF i + 1 < Len(encoded) /\ moveIdx < MoveSlots
    THEN encodedMoveLoop(encoded,
                         [move EXCEPT ![moveIdx + 1] = decodePoint(encoded[i + 1]),
                                      ![moveIdx + 2] = decodePoint(encoded[i + 2])],
                         i + 2, moveIdx + 2)
    ELSE IF moveIdx < MoveSlots THEN [move EXCEPT ![moveIdx + 1] = -1]
    ELSE move

parseEncodedMove(encoded, mr) ==
    LET mv == encodedMoveLoop(encoded, mr.Move, 0, 0)
    IN  [mr EXCEPT !.Move = mv, !.MoveString = FormatMove(mv, mr.Player)]

\* strconv.Atoi(string(b)) of one byte, its error dropped
AtoiByte(b) == Atoi(<<b>>).v

parseEncodedMoveOption(encoded, opt) ==
    LET mv == encodedMoveLoop(encoded, opt.Move, 0, 0)
    IN  [opt EXCEPT !.Move = mv, !.MoveString = FormatMove(mv, 0)]

\* a MoveOption whose opponent win rate is read from the row
moveOptionReadsOpponentWin(parts, plyDepth) ==
    LET o1 == IF Len(parts[1]) >= 2 THEN parseEncodedMoveOption(parts[1], ZeroMoveOption)
              ELSE ZeroMoveOption
    IN  [o1 EXCEPT !.Player1WinRate = parseFloat32(parts[5]),
                   !.Player1GammonRate = parseFloat32(parts[6]),
                   !.Player1BackgammonRate = parseFloat32(parts[7]),
                   !.Player2GammonRate = parseFloat32(parts[8]),
                   !.Player2BackgammonRate = parseFloat32(parts[9]),
                   !.Equity = ParseFloat(parts[10]).v,
                   !.Player2WinRate = parseFloat32(parts[8]),
                   !.AnalysisDepth = plyDepth]

\* the MoveOption of one row of at least 10 tokens
moveOption(parts, plyDepth) ==
    LET o1 == IF Len(parts[1]) >= 2 THEN parseEncodedMoveOption(parts[1], ZeroMoveOption)
              ELSE ZeroMoveOption
    IN  [o1 EXCEPT !.Player1WinRate = parseFloat32(parts[5]),
                   !.Player1GammonRate = parseFloat32(parts[6]),
                   !.Player1BackgammonRate = parseFloat32(parts[7]),
                   !.Player2GammonRate = parseFloat32(parts[8]),
                   !.Player2BackgammonRate = parseFloat32(parts[9]),
                   !.Equity = ParseFloat(parts[10]).v,
                   !.Player2WinRate = FloatUnit - parseFloat32(parts[5]),
                   !.AnalysisDepth = plyDepth]

\* a loop that stops at the first row with fewer than 10 tokens
RECURSIVE moveOptionsStopAtShortRow(_, _)
moveOptionsStopAtShortRow(rows, plyDepth) ==
    IF rows = <<>> \/ Len(Fields(Head(rows))) < 10 THEN <<>>
    ELSE <<moveOption(Fields(Head(rows)), plyDepth)>>
         \o moveOptionsStopAtShortRow(Tail(rows), plyDepth)

\* the loop of parseMoveAnalysis over the rows
RECURSIVE moveOptions(_, _)
moveOptions(rows, plyDepth) ==
    IF rows = <<>> THEN <<>>
    ELSE LET parts == Fields(Head(rows))
         IN  (IF Len(parts) < 10 THEN <<>> ELSE <<moveOption(parts, plyDepth)>>)
             \o moveOptions(Tail(rows), plyDepth)

parseMoveAnalysis(nd, mr) ==
    LET analysisStrs == IF "A" \in DOMAIN nd THEN nd["A"] ELSE <<>>
    IN  [mr EXCEPT !.Analysis =
            IF Len(analysisStrs) = 0 THEN @
            ELSE LET ply  == Atoi(TrimSpace(analysisStrs[1]))
                     rows == IF ply.ok THEN Tail(analysisStrs) ELSE analysisStrs
                 IN  [Moves |-> moveOptions(rows, IF ply.ok THEN ply.v ELSE 0),
                      SelectedMove |-> 0]]

\* an inference that takes or doubles on equal equities
bestActionOnTie(ca, type) ==
    IF type = MoveTypeDouble
    THEN IF ca.CubefulDoubleTake >= ca.CubefulNoDouble THEN "double" ELSE "no_double"
    ELSE IF type = MoveTypeTake \/ type = MoveTypeDrop
    THEN IF ca.CubefulDoubleTake >= ca.CubefulDoublePass THEN "take" ELSE "pass"
    ELSE ca.BestAction

\* the best action parseCubeAnalysis infers for a kind of move record
bestAction(ca, type) ==
    IF type = MoveTypeDouble
    THEN IF ca.CubefulDoubleTake > ca.CubefulNoDouble THEN "double" ELSE "no_double"
    ELSE IF type = MoveTypeTake \/ type = MoveTypeDrop
    THEN IF ca.CubefulDoubleTake > ca.CubefulDoublePass THEN "take" ELSE "pass"
    ELSE ca.BestAction

parseCubeAnalysis(nd, mr) ==
    LET daStrs == IF "DA" \in DOMAIN nd THEN nd["DA"] ELSE <<>>
        parts  == IF Len(daStrs) = 0 THEN <<>> ELSE Fields(daStrs[1])
    IN  [mr EXCEPT !.CubeAnalysis =
          IF Len(daStrs) = 0 \/ Len(parts) < 13 THEN @
          ELSE LET ca == [ZeroCubeAnalysis EXCEPT
                           !.Player1WinRate = parseFloat32(parts[8]),
                           !.Player2WinRate = parseFloat32(parts[9]),
                           !.Player2GammonRate = parseFloat32(parts[10]),
                           !.Player1GammonRate = parseFloat32(parts[11]),
                           !.Player1BackgammonRate = parseFloat32(parts[12]),
                           !.CubelessEquity = ParseFloat(parts[13]).v,
                           !.CubefulNoDouble = IF Len(parts) >= 16
                                               THEN ParseFloat(parts[14]).v ELSE 0,
                           !.AnalysisDepth = Atoi(parts[3]).v]
               IN  [ca EXCEPT !.BestAction = bestAction(ca, mr.Type)]]

parseLuck(nd, mr) ==
    LET parts == Fields(getProperty(nd, "LU"))
    IN  [mr EXCEPT !.Luck = IF Len(parts) < 2 THEN @
                            ELSE [Rating |-> parts[1], Value |-> ParseFloat(parts[2]).v]]

parseSkill(nd, mr) ==
    LET parts == Fields(getProperty(nd, "SK"))
    IN  [mr EXCEPT !.Skill = IF Len(parts) < 2 THEN @
                             ELSE [Rating |-> parts[1], Error |-> ParseFloat(parts[2]).v]]

\* processMove calls the parsers of A, DA, LU and SK in this order, each when
\* the node has the property; a parser called for a node without its
\* property returns at once and leaves the record as it is, so the calls are
\* written without the test.
processMove(nd, game, player, moveStr, comment) ==
    LET mr0 == [ZeroMoveRecord EXCEPT !.Player = player, !.Comment = comment]
        mr  == IF moveStr = <<"d", "o", "u", "b", "l", "e">>
               THEN [mr0 EXCEPT !.Type = MoveTypeDouble]
               ELSE IF moveStr = <<"t", "a", "k", "e">>
               THEN [mr0 EXCEPT !.Type = MoveTypeTake]
               ELSE IF moveStr = <<"d", "r", "o", "p">> \/ moveStr = <<"p", "a", "s", "s">>
               THEN [mr0 EXCEPT !.Type = MoveTypeDrop]
               ELSE LET mn == [mr0 EXCEPT !.Type = MoveTypeNormal]
                    IN  IF Len(moveStr) >= 2
                        THEN LET md == [mn EXCEPT !.Dice = <<AtoiByte(moveStr[1]),
                                                             AtoiByte(moveStr[2])>>]
                             IN  IF Len(moveStr) > 2
                                 THEN parseEncodedMove(Drop(moveStr, 2), md)
                                 ELSE md
                        ELSE mn
    IN  [game EXCEPT !.Moves =
            Append(game.Moves,
                   parseSkill(nd, parseLuck(nd,
                       parseCubeAnalysis(nd, parseMoveAnalysis(nd, mr)))))]

\* the checkers one point list (AW or AB) adds to one side of the board
RECURSIVE addCheckers(_, _)
addCheckers(board, points) ==
    IF points = <<>> THEN board
    ELSE LET pt == IF Len(Head(points)) = 1 THEN decodePoint(Head(points)[1]) ELSE -1
         IN  addCheckers(IF pt >= 0 /\ pt < 25
                         THEN [board EXCEPT ![pt + 1] = @ + 1]
                         ELSE board,
                         Tail(points))

processSetBoard(nd, game, comment) ==
    LET points(name) == IF name \in DOMAIN nd THEN nd[name] ELSE <<>>
        pl  == getProperty(nd, "PL")
        pos == [Board  |-> <<addCheckers([i \in 1..25 |-> 0], points("AW")),
                             addCheckers([i \in 1..25 |-> 0], points("AB"))>>,
                OnRoll |-> IF pl = <<>> \/ pl = <<"W">> \/ pl = <<"w">> THEN 0 ELSE 1]
        mr  == [ZeroMoveRecord EXCEPT !.Type = MoveTypeSetBoard, !.Position = pos,
                                      !.Comment = comment]
    IN  [game EXCEPT !.Moves = Append(game.Moves, mr)]

\* the set-cube-value step of processNode
setCubeValue(nd, game, comment) ==
    IF hasProperty(nd, "CV")
    THEN [game EXCEPT !.Moves = Append(game.Moves,
             [ZeroMoveRecord EXCEPT !.Type = MoveTypeSetCube,
                                    !.CubeValue = getPropertyInt(nd, "CV"),
                                    !.Comment = comment])]
    ELSE game

\* the set-cube-position step of processNode
setCubePos(nd, game, comment) ==
    LET cp == getProperty(nd, "CP")
    IN  IF cp # <<>>
        THEN [game EXCEPT !.Moves = Append(game.Moves,
                 [ZeroMoveRecord EXCEPT !.Type = MoveTypeSetCubePos,
                                        !.Comment = comment,
                                        !.CubeOwner = CASE cp = <<"c">> -> -1
                                                        [] cp = <<"w">> -> 0
                                                        [] cp = <<"b">> -> 1
                                                        [] OTHER -> 0])]
        ELSE game

\* the set-dice step of processNode.  The record is appended to game.Moves
\* (a copy of the struct) before parseLuck writes to the local mr, so the
\* outcome is the game with the record as it was at the append; the local
\* record with the luck is dropped when processNode returns.
setDice(nd, game, comment) ==
    LET di == getProperty(nd, "DI")
        mr == [ZeroMoveRecord EXCEPT !.Type = MoveTypeSetDice,
                                     !.Comment = comment,
                                     !.Dice = <<AtoiByte(di[1]), AtoiByte(di[2])>>]
        appended == [game EXCEPT !.Moves = Append(game.Moves, mr)]
        local    == IF hasProperty(nd, "LU") THEN parseLuck(nd, mr) ELSE mr
    IN  IF di # <<>> /\ Len(di) >= 2
        THEN [game |-> appended, mr |-> local].game
        ELSE game

processNode(nd, game) ==
    LET comment == getProperty(nd, "C")
    IN  IF getProperty(nd, "B") # <<>>
        THEN processMove(nd, game, 1, getProperty(nd, "B"), comment)
        ELSE IF getProperty(nd, "W") # <<>>
        THEN processMove(nd, game, 0, getProperty(nd, "W"), comment)
        ELSE IF hasProperty(nd, "AE") \/ hasProperty(nd, "AW") \/ hasProperty(nd, "AB")
        THEN processSetBoard(nd, game, comment)
        ELSE setDice(nd, setCubePos(nd, setCubeValue(nd, game, comment), comment), comment)

\* one [key:value] part of the MI value
matchInfoPart(part, mg) ==
    LET kv == SplitN2(Trim(part, {"[", "]"}), <<":">>)
        n  == IF Len(kv) = 2 THEN Atoi(kv[2]) ELSE [ok |-> FALSE, v |-> 0]
    IN  IF Len(kv) # 2 \/ ~n.ok THEN mg
        ELSE CASE kv[1] = <<"l", "e", "n", "g", "t", "h">> ->
                      [mg EXCEPT !.match.Metadata.MatchLength = n.v]
               [] kv[1] = <<"g", "a", "m", "e">> -> [mg EXCEPT !.game.GameNumber = n.v]
               [] kv[1] = <<"w", "s">> -> [mg EXCEPT !.game.Score[1] = n.v]
               [] kv[1] = <<"b", "s">> -> [mg EXCEPT !.game.Score[2] = n.v]
               [] OTHER -> mg

RECURSIVE matchInfoParts(_, _)
matchInfoParts(parts, mg) ==
    IF parts = <<>> THEN mg
    ELSE matchInfoParts(Tail(parts), matchInfoPart(Head(parts), mg))

\* mg is the pair of the *Match and the *Game the function writes to
parseMatchInfo(mi, mg) == matchInfoParts(Split(mi, <<"]", "[">>), mg)

ruleName(rule) ==
    CASE rule = <<"C", "r", "a", "w", "f", "o", "r", "d">> -> "Crawford"
      [] rule = <<"C", "r", "a", "w", "f", "o", "r", "d", "G", "a", "m", "e">> -> "CrawfordGame"
      [] rule = <<"J", "a", "c", "o", "b", "y">> -> "Jacoby"
      [] rule = <<"N", "o", "C", "u", "b", "e">> -> "NoCube"
      [] rule = <<"N", "a", "c", "k", "g", "a", "m", "m", "o", "n">> -> "Nackgammon"
      [] rule = <<"H", "y", "p", "e", "r", "g", "a", "m", "m", "o", "n", "1">> -> "Hypergammon1"
      [] rule = <<"H", "y", "p", "e", "r", "g", "a", "m", "m", "o", "n", "2">> -> "Hypergammon2"
      [] rule = <<"H", "y", "p", "e", "r", "g", "a", "m", "m", "o", "n", "3">> -> "Hypergammon3"
      [] OTHER -> ""

RECURSIVE rulesLoop(_, _)
rulesLoop(rules, game) ==
    IF rules = <<>> THEN game
    ELSE LET rule == ruleName(TrimSpace(Head(rules)))
         IN  rulesLoop(Tail(rules),
                CASE rule = "Crawford" -> [game EXCEPT !.Crawford = TRUE]
                  [] rule = "CrawfordGame" -> [game EXCEPT !.CrawfordGame = TRUE]
                  [] rule = "Jacoby" -> [game EXCEPT !.Jacoby = TRUE]
                  [] rule = "NoCube" -> [game EXCEPT !.CubeEnabled = FALSE]
                  [] rule \in {"Nackgammon", "Hypergammon1", "Hypergammon2", "Hypergammon3"} ->
                         [game EXCEPT !.Variation = rule]
                  [] OTHER -> game)

\* parseRules without its default for the variation
parseRulesNoDefault(ru, game) == rulesLoop(Split(ru, <<":">>), game)

parseRules(ru, game) ==
    LET g == rulesLoop(Split(ru, <<":">>), game)
    IN  IF g.Variation = "" THEN [g EXCEPT !.Variation = "Standard"] ELSE g

\* parseResult without the resignation marker
parseResultIgnoresMarker(re, game) ==
    IF Len(re) < 3 THEN game
    ELSE LET g1 == IF re[1] = "W" THEN [game EXCEPT !.Winner = 0]
                   ELSE IF re[1] = "B" THEN [game EXCEPT !.Winner = 1]
                   ELSE game
             points == Atoi(TrimSuffix(TrimLeftSet(Drop(re, 1), {"+"}), <<"R">>))
         IN  IF points.ok THEN [g1 EXCEPT !.Points = points.v] ELSE g1

parseResult(re, game) ==
    IF Len(re) < 3 THEN game
    ELSE LET g1 == IF re[1] = "W" THEN [game EXCEPT !.Winner = 0]
                   ELSE IF re[1] = "B" THEN [game EXCEPT !.Winner = 1]
                   ELSE game
             points == Atoi(TrimSuffix(TrimLeftSet(Drop(re, 1), {"+"}), <<"R">>))
             g2 == IF points.ok THEN [g1 EXCEPT !.Points = points.v] ELSE g1
         IN  IF HasSuffix(re, <<"R">>) THEN [g2 EXCEPT !.Resigned = TRUE] ELSE g2

\* the scalar properties of the root node and the metadata field each sets,
\* in the order extractMetadata reads them
MetadataTags ==
    <<<<"AP", "Application">>, <<"PW", "Player1">>, <<"PB", "Player2">>,
      <<"WR", "Rating1">>, <<"BR", "Rating2">>, <<"EV", "Event">>,
      <<"RO", "Round">>, <<"PC", "Place">>, <<"DT", "Date">>,
      <<"AN", "Annotator">>, <<"GC", "Comment">>>>

RECURSIVE scalarMetadata(_, _, _)
scalarMetadata(nd, md, i) ==
    IF i > Len(MetadataTags) THEN md
    ELSE LET v == getProperty(nd, MetadataTags[i][1])
         IN  scalarMetadata(nd,
                            IF v # <<>> THEN [md EXCEPT ![MetadataTags[i][2]] = v] ELSE md,
                            i + 1)

extractMetadata(nd, mg) ==
    LET m1 == [mg EXCEPT !.match.Metadata = scalarMetadata(nd, mg.match.Metadata, 1)]
        m2 == IF getProperty(nd, "MI") # <<>>
              THEN parseMatchInfo(getProperty(nd, "MI"), m1) ELSE m1
        m3 == IF getProperty(nd, "RU") # <<>>
              THEN [m2 EXCEPT !.game = parseRules(getProperty(nd, "RU"), m2.game)] ELSE m2
        m4 == IF getProperty(nd, "CV") # <<>>
              THEN [m3 EXCEPT !.game.AutoDoubles = getPropertyInt(nd, "CV")] ELSE m3
    IN  IF getProperty(nd, "RE") # <<>>
        THEN [m4 EXCEPT !.game = parseResult(getProperty(nd, "RE"), m4.game)] ELSE m4

\* Game{Moves: ..., CubeEnabled: true}
NewGame == [ZeroGame EXCEPT !.CubeEnabled = TRUE]

\* the loop of convertGame over the chain of first children
RECURSIVE processChain(_, _)
processChain(chain, game) ==
    IF chain = <<>> THEN game
    ELSE processChain(Tail(chain), processNode(Head(chain), game))

\* a conversion that starts each Game from the Game before it
convertGameCarriesOver(chain, mt) ==
    LET start == IF mt.Games = <<>> THEN NewGame
                 ELSE [mt.Games[Len(mt.Games)] EXCEPT !.Moves = <<>>]
        mg == extractMetadata(chain[1], [match |-> mt, game |-> start])
    IN  [mg EXCEPT !.game = processChain(chain, mg.game)]

\* returns the match (its metadata updated) and the game
convertGame(chain, mt) ==
    LET mg == extractMetadata(chain[1], [match |-> mt, game |-> NewGame])
    IN  [mg EXCEPT !.game = processChain(chain, mg.game)]

RECURSIVE convertNodesToMatch(_, _)
convertNodesToMatch(nodes, mt) ==
    IF nodes = <<>> THEN mt
    ELSE LET mg == convertGame(Head(nodes), mt)
         IN  convertNodesToMatch(Tail(nodes),
                 [mg.match EXCEPT !.Games = Append(mg.match.Games, mg.game)])

\* ParseSGF after parseGameTree has returned
ParseSGF(s) ==
    IF Len(s.games) = 0 THEN Fail(s, "empty SGF file")
    ELSE [s EXCEPT !.match = convertNodesToMatch(s.games, ZeroMatch), !.pc = "done"]


(***************************************************************************)
(* The inputs handed to ParseSGF.                                          *)
(***************************************************************************)
\* name[v1][v2]...
Property(name, values) ==
    name \o Concat([i \in DOMAIN values |-> <<"[">> \o values[i] \o <<"]">>])

\* ( ;node1 ;node2 ... )
Tree(nodes) ==
    <<"(">> \o Concat([i \in DOMAIN nodes |-> <<";">> \o nodes[i]]) \o <<")">>

\* MI[length:L][game:G][ws:A][bs:B]
MatchInfoText(L, G, A, B) ==
    Property(<<"M", "I">>,
             <<<<"l", "e", "n", "g", "t", "h", ":">> \o Itoa(L),
               <<"g", "a", "m", "e", ":">> \o Itoa(G),
               <<"w", "s", ":">> \o Itoa(A),
               <<"b", "s", ":">> \o Itoa(B)>>)

MatchInfoInput(L, G, A, B) == Tree(<<MatchInfoText(L, G, A, B)>>)

MatchInfoInputs ==
    {MatchInfoInput(L, G, A, B) : L \in 0..MaxNum, G \in 0..MaxNum,
                                  A \in 0..MaxNum, B \in 0..MaxNum}

\* the classified properties, each with a value, in the order they are
\* written in a node
ClassifiedText ==
    <<Property(<<"B">>, <<<<"5", "2", "l", "p">>>>),
      Property(<<"W">>, <<<<"3", "1", "a", "b">>>>),
      Property(<<"A", "E">>, <<<<"a">>>>),
      Property(<<"A", "W">>, <<<<"b">>>>),
      Property(<<"A", "B">>, <<<<"c">>>>),
      Property(<<"C", "V">>, <<<<"2">>>>),
      Property(<<"C", "P">>, <<<<"w">>>>),
      Property(<<"D", "I">>, <<<<"3", "1">>>>)>>

NodeWith(S) ==
    Concat([i \in DOMAIN ClassifiedText |-> IF i \in S THEN ClassifiedText[i] ELSE <<>>])

\* one node with any combination of classified properties, and two nodes
\* with one classified property each
ClassifiedInputs ==
    {Tree(<<NodeWith(S)>>) : S \in SUBSET DOMAIN ClassifiedText}
    \cup {Tree(<<NodeWith({i}), NodeWith({j})>>) : i, j \in DOMAIN ClassifiedText}

PointPairs == {<<"l", "p">>, <<"y", "z">>}

RECURSIVE PairLists(_)
PairLists(k) ==
    IF k = 0 THEN {<<>>}
    ELSE PairLists(k - 1)
         \cup {l \o pr : l \in {x \in PairLists(k - 1) : Len(x) = 2 * (k - 1)},
                         pr \in PointPairs}

\* a move of either side: two die characters and up to MaxPairs pairs
MoveInputs ==
    {Tree(<<Property(<<side>>, <<<<"5", "2">> \o l>>)>>) :
        side \in {"B", "W"}, l \in PairLists(MaxPairs)}

ResultValues ==
    {<<"W", "+", "2">>, <<"B", "+", "1", "R">>, <<"B", "+", "3">>, <<"W", "+">>,
     <<"X", "+", "1">>}

\* a root node with and without a result
ResultInputs ==
    {Tree(<<Property(<<"R", "E">>, <<v>>)>>) : v \in ResultValues}
    \cup {Tree(<<Property(<<"G", "M">>, <<<<"6">>>>)>>), Tree(<<<<>>>>)}

SmallTree == Tree(<<Property(<<"B">>, <<<<"5", "2">>>>)>>)

InsertAt(s, i, c) == Take(s, i) \o <<c>> \o Drop(s, i)

\* up to MaxTrees small trees, and the same with one more character put
\* in at any place
RECURSIVE Forest(_)
Forest(k) == IF k = 0 THEN <<>> ELSE Forest(k - 1) \o SmallTree

StrayInputs ==
    {Forest(k) : k \in 0..MaxTrees}
    \cup UNION {{InsertAt(Forest(k), i, c) :
                    i \in 0..Len(Forest(k)), c \in {"x", "]", " ", ")"}} :
                 k \in 1..MaxTrees}

Variations ==
    {Tree(<<Property(<<"W">>, <<<<"3", "1">>>>)>>),
     Tree(<<Property(<<"W">>, <<<<"3", "1">>>>)>>) \o Tree(<<Property(<<"W">>, <<<<"6", "4">>>>)>>),
     <<"(", ";", "W", "[", "3", "1", "]">> \o Tree(<<Property(<<"W">>, <<<<"6", "4">>>>)>>) \o <<")">>,
     Tree(<<Property(<<"C">>, <<<<"a", ")", "b">>>>)>>),
     Tree(<<Property(<<"C">>, <<<<"a", "(", "b">>>>)>>),
     Tree(<<Property(<<"C">>, <<<<"a", "\\", "]", "b">>>>)>>),
     Tree(<<Property(<<"C">>, <<<<"[", "x">>>>)>>),
     Tree(<<Property(<<"C">>, <<<<")", ")">>>>)>>)}

\* a game tree with a variation after its first or its second node
VariationInputs ==
    {<<"(", ";", "B", "[", "5", "2", "]">> \o v \o tail \o <<")">> \o more :
        v \in Variations,
        tail \in {<<>>, <<";">> \o Property(<<"W">>, <<<<"3", "1">>>>)},
        more \in {<<>>, SmallTree}}

MaxValueLen == 4   \* characters written between the brackets of a value

\* the texts of at most n characters of the alphabet A
RECURSIVE TextsOver(_, _)
TextsOver(A, n) ==
    IF n = 0 THEN {<<>>}
    ELSE TextsOver(A, n - 1)
         \cup {Append(t, c) : t \in {x \in TextsOver(A, n - 1) : Len(x) = n - 1}, c \in A}

\* the text can be written between '[' and ']': every ']' in it is escaped
\* and it does not end in an escaping backslash
RECURSIVE IsRawValue(_)
IsRawValue(raw) ==
    IF raw = <<>> THEN TRUE
    ELSE IF Head(raw) = "\\" THEN Len(raw) >= 2 /\ IsRawValue(Drop(raw, 2))
    ELSE Head(raw) # "]" /\ IsRawValue(Tail(raw))

RawValues ==
    {r \in TextsOver({"a", "\\", "]", " "}, MaxValueLen) : IsRawValue(r)}
    \cup {<<"a", "\\", "]", "b">>}

\* a game tree whose root node has the comment written as raw
ValueInput(raw) == Tree(<<<<"C", "[">> \o raw \o <<"]">>>>)

EscapeInputs == {ValueInput(r) : r \in RawValues}

\* the inputs cut off before their end: every proper prefix of a game tree
\* with a variation, of MaxTrees small trees and of a tree with an escape
TruncatedInputs ==
    LET bases == {<<"(", ";", "B", "[", "5", "2", "]">> \o v \o <<")">> : v \in Variations}
                 \cup {Forest(MaxTrees), ValueInput(<<"a", "\\", "]", "b">>)}
    IN  UNION {{Take(b, n) : n \in 0..(Len(b) - 1)} : b \in bases}

\* game trees that differ in every field a Game takes from its tree
GameTrees ==
    {Tree(<<Property(<<"M", "I">>, <<<<"g", "a", "m", "e", ":", "1">>>>)
              \o Property(<<"R", "U">>, <<<<"J", "a", "c", "o", "b", "y">>>>)
              \o Property(<<"C", "V">>, <<<<"2">>>>)
              \o Property(<<"R", "E">>, <<<<"W", "+", "2">>>>),
            Property(<<"B">>, <<<<"5", "2", "l", "p">>>>)>>),
     Tree(<<Property(<<"M", "I">>, <<<<"w", "s", ":", "1">>>>)
              \o Property(<<"R", "U">>,
                          <<<<"N", "o", "C", "u", "b", "e", ":", "N", "a", "c", "k", "g", "a", "m", "m", "o", "n">>>>)
              \o Property(<<"R", "E">>, <<<<"B", "+", "1", "R">>>>),
            Property(<<"W">>, <<<<"3", "1", "a", "b">>>>)>>),
     SmallTree}

\* the lists of 1..k game trees
RECURSIVE TreeLists(_)
TreeLists(k) ==
    IF k = 0 THEN {}
    ELSE {<<t>> : t \in GameTrees}
         \cup {Append(l, t) : l \in TreeLists(k - 1), t \in GameTrees}

\* the trees of a list written one after the other with sep between them
RECURSIVE Joined(_, _)
Joined(l, sep) ==
    IF Len(l) = 1 THEN l[1] ELSE l[1] \o sep \o Joined(Tail(l), sep)

\* up to MaxTrees game trees, separated by nothing or by white space
ConcatenatedInputs ==
    {Joined(l, sep) : l \in TreeLists(MaxTrees), sep \in {<<>>, <<" ", "\n">>}}

\* nodes with a checker move or a dice set whose two dice characters are
\* digits inside and outside 1..6 or no digits
DiceInputs ==
    {Tree(<<Property(name, <<<<d1, d2>>>>)>>) :
        name \in {<<"B">>, <<"D", "I">>}, d1 \in {"0", "1", "6", "7", "x"}, d2 \in {"0", "6", "7"}}

\* nodes in which a property name is followed by no value
BareNameInputs ==
    {Tree(<<name>>) : name \in {<<"C", "V">>, <<"D", "I">>, <<"B">>, <<"X">>}}
    \cup {Tree(<<Property(<<"B">>, <<<<"5", "2">>>>) \o name>>) :
             name \in {<<"C", "V">>, <<"X">>, <<"L", "U", " ">>}}

\* a luck value: a rating and a number, or a rating alone
LuckTexts == {<<"G", " ", "0", ".", "5">>, <<"B", " ", "-", ".", "2", "5">>, <<"G">>}

\* nodes with a dice set or a checker move and a luck property
LuckInputs ==
    {Tree(<<Property(name, <<<<"3", "1">>>>) \o Property(<<"L", "U">>, <<lu>>)>>) :
        name \in {<<"D", "I">>, <<"B">>}, lu \in LuckTexts}

SGFInputs ==
    MatchInfoInputs \cup ClassifiedInputs \cup MoveInputs \cup ResultInputs
    \cup StrayInputs \cup VariationInputs \cup EscapeInputs \cup TruncatedInputs
    \cup ConcatenatedInputs \cup DiceInputs \cup BareNameInputs
    \cup LuckInputs

(***************************************************************************)
(* ParseSGF as a state machine.                                            *)
(***************************************************************************)
Idle == [idle |-> TRUE]

\* no function has been called
NoCall == [fn |-> "none", args |-> <<>>, ret |-> <<>>]

\* the state in which ParseSGF(r) calls parseGameTree
SGFStart(in) ==
    [input |-> in, p |-> NewSGFParser, pc |-> "parseGameTree", games |-> <<>>,
     root |-> <<EmptyNode>>, depth |-> 0, node |-> EmptyNode,
     prop |-> [name |-> "", values |-> <<>>],
     val |-> [value |-> <<>>, escaped |-> FALSE],
     match |-> NoMatch, err |-> ""]

Cur ==
    [input |-> input, p |-> p, pc |-> pc, games |-> games, root |-> root,
     depth |-> depth, node |-> node, prop |-> prop, val |-> val,
     match |-> match, err |-> err]

Starts(s) ==
    /\ input = s.input
    /\ p = s.p
    /\ pc = s.pc
    /\ games = s.games
    /\ root = s.root
    /\ depth = s.depth
    /\ node = s.node
    /\ prop = s.prop
    /\ val = s.val
    /\ match = s.match
    /\ err = s.err

Becomes(s) ==
    /\ input' = s.input
    /\ p' = s.p
    /\ pc' = s.pc
    /\ games' = s.games
    /\ root' = s.root
    /\ depth' = s.depth
    /\ node' = s.node
    /\ prop' = s.prop
    /\ val' = s.val
    /\ match' = s.match
    /\ err' = s.err
    /\ UNCHANGED <<call, lines, m>>

StepSGF(s) ==
    CASE s.pc = "parseGameTree" -> parseGameTree(s)
      [] s.pc = "parseGame" -> parseGame(s)
      [] s.pc = "variation" -> skipVariation(s)
      [] s.pc = "parseNode" -> parseNode(s)
      [] s.pc = "parseProperty" -> parsePropertyName(s)
      [] s.pc = "propertyValues" -> parsePropertyValues(s)
      [] s.pc = "parsePropertyValue" -> parsePropertyValue(s)
      [] s.pc = "ParseSGF" -> ParseSGF(s)
      [] OTHER -> s

\* ParseSGF run to its return
RECURSIVE RunSGF(_)
RunSGF(s) == IF s.pc \in {"done", "error"} THEN s ELSE RunSGF(StepSGF(s))

\* the inputs of the calls whose termination is checked: trees with
\* variations, with names that have no value and with white space, and
\* inputs cut off before their end
LiveInputs ==
    VariationInputs \cup BareNameInputs \cup TruncatedInputs
    \cup {InsertAt(SmallTree, i, c) : i \in 0..Len(SmallTree), c \in {" ", "\n"}}

InitLive ==
    /\ \E in \in LiveInputs : Starts(SGFStart(in))
    /\ call = NoCall /\ lines = <<>> /\ m = Idle

Init ==
    /\ \E in \in SGFInputs : Starts(SGFStart(in))
    /\ call = NoCall /\ lines = <<>> /\ m = Idle

ParseGameTree == pc = "parseGameTree" /\ Becomes(parseGameTree(Cur))
ParseGame == pc = "parseGame" /\ Becomes(parseGame(Cur))
SkipVariation == pc = "variation" /\ Becomes(skipVariation(Cur))
ParseNode == pc = "parseNode" /\ Becomes(parseNode(Cur))
ParsePropertyName == pc = "parseProperty" /\ Becomes(parsePropertyName(Cur))
ParsePropertyValues == pc = "propertyValues" /\ Becomes(parsePropertyValues(Cur))
ParsePropertyValue == pc = "parsePropertyValue" /\ Becomes(parsePropertyValue(Cur))
Convert == pc = "ParseSGF" /\ Becomes(ParseSGF(Cur))

Next ==
    \/ ParseGameTree
    \/ ParseGame
    \/ SkipVariation
    \/ ParseNode
    \/ ParsePropertyName
    \/ ParsePropertyValues
    \/ ParsePropertyValue
    \/ Convert

Spec == Init /\ [][Next]_vars

Returned == pc \in {"done", "error"}

\* ParseSGF is one sequential call on a reader that holds the whole input:
\* nothing it waits for can keep a step that is possible from being taken
SpecLive == InitLive /\ [][Next]_vars /\ WF_vars(Next)


(***************************************************************************)
(* The grammar of the tree format, as a recognizer of the characters       *)
(* permitted after a prefix:                                               *)
(*     GameTree := '(' NodeSeq Variation* ')'     NodeSeq := (';' Node)+   *)
(*     Node := Property*    Property := Name Value+    Name := 1-2 letters *)
(*     Value := '[' (Escaped | Char)* ']'         Escaped := '\' AnyChar   *)
(* with white space allowed between tokens and a Variation a GameTree.     *)
(***************************************************************************)
GrammarStart == [mode |-> "top", d |-> 0]

GrammarBad == [mode |-> "bad", d |-> 0]

GrammarClose(st) ==
    IF st.d = 1 THEN [mode |-> "top", d |-> 0] ELSE [mode |-> "afterVariation", d |-> st.d - 1]

GrammarNext(st, c) ==
    CASE st.mode = "top" ->
             IF IsSpace(c) THEN st
             ELSE IF c = "(" THEN [mode |-> "open", d |-> 1]
             ELSE GrammarBad
      [] st.mode = "open" ->
             IF IsSpace(c) THEN st
             ELSE IF c = ";" THEN [st EXCEPT !.mode = "node"]
             ELSE GrammarBad
      [] st.mode \in {"node", "afterValue"} ->
             IF IsSpace(c) THEN st
             ELSE IF c = "[" /\ st.mode = "afterValue" THEN [st EXCEPT !.mode = "value"]
             ELSE IF IsLetter(c) THEN [st EXCEPT !.mode = "name1"]
             ELSE IF c = ";" THEN [st EXCEPT !.mode = "node"]
             ELSE IF c = "(" THEN [mode |-> "open", d |-> st.d + 1]
             ELSE IF c = ")" THEN GrammarClose(st)
             ELSE GrammarBad
      [] st.mode = "name1" ->
             IF IsLetter(c) \/ IsSpace(c) THEN [st EXCEPT !.mode = "name2"]
             ELSE IF c = "[" THEN [st EXCEPT !.mode = "value"]
             ELSE GrammarBad
      [] st.mode = "name2" ->
             IF IsSpace(c) THEN st
             ELSE IF c = "[" THEN [st EXCEPT !.mode = "value"]
             ELSE GrammarBad
      [] st.mode = "value" ->
             IF c = "\\" THEN [st EXCEPT !.mode = "escaped"]
             ELSE IF c = "]" THEN [st EXCEPT !.mode = "afterValue"]
             ELSE st
      [] st.mode = "escaped" -> [st EXCEPT !.mode = "value"]
      [] st.mode = "afterVariation" ->
             IF IsSpace(c) THEN st
             ELSE IF c = "(" THEN [mode |-> "open", d |-> st.d + 1]
             ELSE IF c = ")" THEN GrammarClose(st)
             ELSE GrammarBad
      [] OTHER -> GrammarBad

RECURSIVE GrammarRun(_, _, _)
GrammarRun(in, i, st) ==
    IF i > Len(in) \/ st.mode = "bad" THEN st
    ELSE GrammarRun(in, i + 1, GrammarNext(st, in[i]))

\* the input holds, outside a property value, a character that the grammar
\* does not permit where it stands
HasUnpermittedChar(in) == GrammarRun(in, 1, GrammarStart).mode = "bad"

\* the input is a sequence of complete game trees
GrammarValid(in) == GrammarRun(in, 1, GrammarStart) = GrammarStart

\* the input without the variations of its game trees
RECURSIVE RemoveVariationsFrom(_, _, _)
RemoveVariationsFrom(in, i, st) ==
    IF i > Len(in) THEN <<>>
    ELSE LET nx == GrammarNext(st, in[i])
         IN  (IF st.d <= 1 /\ nx.d <= 1 THEN <<in[i]>> ELSE <<>>)
             \o RemoveVariationsFrom(in, i + 1, nx)

RemoveVariations(in) == RemoveVariationsFrom(in, 1, GrammarStart)

(***************************************************************************)
(* Claims about ParseSGF.                                                  *)
(***************************************************************************)
\* C1: for an input whose root node is written MI[length:L][game:G][ws:A][bs:B],
\* ParseSGF returns a Match with MatchLength = L whose Game has
\* GameNumber = G and Score = [A, B].
C1_MatchInfoEndToEnd ==
    \A L, G, A, B \in 0..MaxNum :
        (Returned /\ input = MatchInfoInput(L, G, A, B)) =>
            /\ err = ""
            /\ match # NoMatch
            /\ match.Metadata.MatchLength = L
            /\ match.Games[1].GameNumber = G
            /\ match.Games[1].Score = <<A, B>>

ClassifiedNames == {"B", "W", "AE", "AW", "AB", "CV", "CP", "DI"}

IsClassified(nd) == DOMAIN nd \cap ClassifiedNames # {}

\* the record types of the highest-precedence kind present in a node
KindTypes(nd) ==
    IF DOMAIN nd \cap {"B", "W"} # {}
    THEN {MoveTypeNormal, MoveTypeDouble, MoveTypeTake, MoveTypeDrop}
    ELSE IF DOMAIN nd \cap {"AE", "AW", "AB"} # {} THEN {MoveTypeSetBoard}
    ELSE IF "CV" \in DOMAIN nd THEN {MoveTypeSetCube}
    ELSE IF "CP" \in DOMAIN nd THEN {MoveTypeSetCubePos}
    ELSE {MoveTypeSetDice}

\* C2: every node with at least one classified property yields exactly one
\* MoveRecord, of the highest-precedence kind present in the node, and the
\* records are in Game.Moves in node-chain order.
C2_OneRecordPerClassifiedNode ==
    (pc = "done" /\ GrammarValid(input)) =>
        \A i \in DOMAIN games :
            LET cn == SelectSeq(games[i], IsClassified)
                mv == match.Games[i].Moves
            IN  /\ Len(mv) = Len(cn)
                /\ \A j \in DOMAIN cn : mv[j].Type \in KindTypes(cn[j])

\* C5: every Game has Winner in {-1, 0, 1}, and a Game whose root node has no
\* RE property has Winner = -1.
C5_WinnerUndecidedWithoutResult ==
    (pc = "done") =>
        \A i \in DOMAIN games :
            /\ match.Games[i].Winner \in {-1, 0, 1}
            /\ "RE" \notin DOMAIN games[i][1] => match.Games[i].Winner = -1

\* the point a point-code letter stands for: 'a'..'x' 0..23, 'y' 24, 'z' 25
PointOfLetter(c) == IndexOf(Lower, c) - 1

\* the value is two die characters followed by k point-code pairs, k <= 4
IsEncodedMoveValue(v) ==
    /\ Len(v) >= 2 /\ Len(v) <= 2 + MoveSlots /\ Len(v) % 2 = 0
    /\ IsDigit(v[1]) /\ IsDigit(v[2])
    /\ \A n \in 3..Len(v) : v[n] \in Range(Lower)

\* C6: for a checker move made from a value of two die characters and k
\* point-code pairs, slots 0..2k-1 of Move hold the decoded pairs and every
\* slot from 2k on holds -1.
C6_UnusedSlotsHoldMinusOne ==
    (pc = "done") =>
        \A i \in DOMAIN games : \A side \in {"B", "W"} :
            LET v == getProperty(games[i][1], side)
            IN  (Len(games[i]) = 1 /\ DOMAIN games[i][1] = {side}
                 /\ IsEncodedMoveValue(v)) =>
                    /\ Len(match.Games[i].Moves) = 1
                    /\ match.Games[i].Moves[1].Type = MoveTypeNormal
                    /\ \A n \in 1..MoveSlots :
                           match.Games[i].Moves[1].Move[n] =
                               IF n <= Len(v) - 2 THEN PointOfLetter(v[n + 2]) ELSE -1

\* C9: for every input that holds, outside a property value, a character
\* the grammar does not permit where it stands, ParseSGF returns an error
\* and no Match.
C9_UnpermittedCharIsAnError ==
    (Returned /\ HasUnpermittedChar(input)) => (err # "" /\ match = NoMatch)

\* C10: for a grammar-valid input with a variation in a game tree, the
\* parser returns the node chains it returns for the same input without
\* the variation.
C10_VariationIsDiscarded ==
    (Returned /\ GrammarValid(input) /\ RemoveVariations(input) # input) =>
        LET r == RunSGF(SGFStart(RemoveVariations(input)))
        IN  /\ err = r.err
            /\ games = r.games
            /\ match = r.match

(***************************************************************************)
(* The point and move notation of the flat format (matparser.go).          *)
(***************************************************************************)
\* strings.Contains
Contains(s, sub) == IndexFrom(s, sub, 0) >= 0

parseMatPoint(s0) ==
    LET s     == TrimSuffix(TrimSpace(s0), <<"*">>)
        lower == ToLower(s)
        point == Atoi(s)
    IN  IF lower = <<"b", "a", "r">> THEN 24
        ELSE IF lower = <<"o", "f", "f">> THEN -1
        ELSE IF ~point.ok THEN -2
        ELSE IF point.v >= 1 /\ point.v <= 24 THEN point.v - 1
        ELSE -2

\* the loop of parseMatMove over 'parts', idx the 0-based slot
RECURSIVE matMoveLoop(_, _, _)
matMoveLoop(parts, move, idx) ==
    IF parts = <<>> \/ idx >= MoveSlots THEN move
    ELSE LET moveparts == Split(Head(parts), <<"/">>)
             from      == parseMatPoint(moveparts[1])
             to        == parseMatPoint(moveparts[2])
         IN  IF Len(moveparts) # 2 THEN matMoveLoop(Tail(parts), move, idx)
             ELSE IF from >= 0 /\ to >= -1
             THEN matMoveLoop(Tail(parts),
                              [move EXCEPT ![idx + 1] = from, ![idx + 2] = to],
                              idx + 2)
             ELSE matMoveLoop(Tail(parts), move, idx)

parseMatMove(moveStr) ==
    LET move == [i \in 1..MoveSlots |-> -1]
    IN  IF moveStr = <<>>
           \/ Contains(ToLower(moveStr),
                       <<"c", "a", "n", "'", "t", " ", "m", "o", "v", "e">>)
        THEN move
        ELSE matMoveLoop(Fields(moveStr), move, 0)

(***************************************************************************)
(* The exported and internal pure functions, called on their own.          *)
(***************************************************************************)
MaxFnPairs == 2    \* from/to pairs in a move given to a function

\* a point as a move names it: 1..24 a board point, 25 the bar, 26 off
PointNames == 1..26

\* the point names used in moves of more than one pair
FewPointNames == {1, 6, 24, 25, 26}

\* the point name as the flat format writes it
MatPointText(k) ==
    IF k = 25 THEN <<"b", "a", "r">>
    ELSE IF k = 26 THEN <<"o", "f", "f">>
    ELSE Itoa(k)

\* the point name as the tree format writes it
SGFPointLetter(k) == Lower[k]

RECURSIVE MatMoveText(_)
MatMoveText(pairs) ==
    IF pairs = <<>> THEN <<>>
    ELSE MatPointText(pairs[1][1]) \o <<"/">> \o MatPointText(pairs[1][2])
         \o (IF Len(pairs) > 1 THEN <<" ">> ELSE <<>>) \o MatMoveText(Tail(pairs))

RECURSIVE SGFMoveText(_)
SGFMoveText(pairs) ==
    IF pairs = <<>> THEN <<>>
    ELSE <<SGFPointLetter(pairs[1][1]), SGFPointLetter(pairs[1][2])>>
         \o SGFMoveText(Tail(pairs))

\* the moves of n pairs over the point names in P
RECURSIVE PairListsOver(_, _)
PairListsOver(P, n) ==
    IF n = 0 THEN {<<>>}
    ELSE {<<<<a, b>>>> \o q : a \in P, b \in P, q \in PairListsOver(P, n - 1)}

FnPairLists ==
    PairListsOver(PointNames, 1)
    \cup UNION {PairListsOver(FewPointNames, n) : n \in 0..MaxFnPairs}

\* the Move array that holds the stored values vs, then -1 in every slot
MoveArrayOf(vs) == [i \in 1..MoveSlots |-> IF i <= Len(vs) THEN vs[i] ELSE -1]

RECURSIVE StoredValues(_)
StoredValues(pairs) ==
    IF pairs = <<>> THEN <<>>
    ELSE <<pairs[1][1] - 1, pairs[1][2] - 1>> \o StoredValues(Tail(pairs))

FnMoveArrays == {MoveArrayOf(StoredValues(q)) : q \in FnPairLists}

FnChars == Range(Lower) \cup {"A", "Z", "0", "9", "{", "[", " "}

FnPointTexts ==
    {MatPointText(k) : k \in PointNames}
    \cup {<<"0">>, <<"2", "5">>, <<"6", "*">>, <<" ", "6">>, <<"B", "a", "r">>,
          <<"O", "F", "F">>, <<"x">>, <<>>, <<"-", "1">>}

FnMoveTexts ==
    {MatMoveText(q) : q \in FnPairLists}
    \cup {<<"C", "a", "n", "'", "t", " ", "m", "o", "v", "e">>,
          <<"6", "/", "4", "*", " ", "4", "/", "2">>, <<"6">>, <<"6", "/", "0">>}

MaxTokens == 3   \* tokens in a rules text

\* the tokens parseRules knows, one it does not know and the empty token
RuleTokens ==
    {<<"C", "r", "a", "w", "f", "o", "r", "d">>,
     <<"C", "r", "a", "w", "f", "o", "r", "d", "G", "a", "m", "e">>,
     <<"J", "a", "c", "o", "b", "y">>,
     <<"N", "o", "C", "u", "b", "e">>,
     <<"N", "a", "c", "k", "g", "a", "m", "m", "o", "n">>,
     <<"H", "y", "p", "e", "r", "g", "a", "m", "m", "o", "n", "1">>,
     <<"H", "y", "p", "e", "r", "g", "a", "m", "m", "o", "n", "2">>,
     <<"H", "y", "p", "e", "r", "g", "a", "m", "m", "o", "n", "3">>,
     <<"F", "o", "o">>, <<>>}

\* the lists of at most k tokens
RECURSIVE TokenLists(_)
TokenLists(k) ==
    IF k = 0 THEN {<<>>}
    ELSE TokenLists(k - 1)
         \cup {Append(l, t) : l \in {x \in TokenLists(k - 1) : Len(x) = k - 1}, t \in RuleTokens}

\* the tokens written with a colon between them
RECURSIVE RulesText(_)
RulesText(l) ==
    IF l = <<>> THEN <<>>
    ELSE IF Len(l) = 1 THEN l[1]
    ELSE l[1] \o <<":">> \o RulesText(Tail(l))

FnRulesTexts == {RulesText(l) : l \in TokenLists(MaxTokens)}

MaxResult == 12   \* points written in a result text

\* <side>+<digits> and <side>+<digits>R
FnResultTexts ==
    {<<side, "+">> \o Itoa(n) \o mark :
        side \in {"W", "B"}, n \in 0..MaxResult, mark \in {<<>>, <<"R">>}}

\* tokens written with one space between them
RECURSIVE JoinTokens(_)
JoinTokens(toks) ==
    IF toks = <<>> THEN <<>>
    ELSE IF Len(toks) = 1 THEN toks[1]
    ELSE toks[1] \o <<" ">> \o JoinTokens(Tail(toks))

\* the texts written for the own total-win probability of a row
WinTexts == {<<".", "5">>, <<"0", ".", "4", "9", "6">>, <<"1">>, <<"x">>}

\* a move-evaluation row: move, rating, 'ver', version, five probabilities
\* and the equity, then the tokens of 'more'
AnalysisRow(p1, more) ==
    JoinTokens(<<<<"l", "p">>, <<"E">>, <<"v", "e", "r">>, <<"3">>, p1, <<".", "1">>, <<"0">>, <<".", "3">>, <<"0">>, <<".", "2">>>> \o more)

\* rows of 10 and 11 tokens, a row of 9 tokens, one of a single number and
\* the empty row
AnalysisRows ==
    {AnalysisRow(p1, <<>>) : p1 \in WinTexts}
    \cup {<<" ">> \o AnalysisRow(<<"0", ".", "2", "5">>, <<<<"y">>>>),
          JoinTokens(<<<<"l", "p">>, <<"E">>, <<"v", "e", "r">>, <<"3">>, <<".", "5">>, <<".", "1">>, <<"0">>, <<".", "3">>, <<"0">>>>),
          <<"7">>, <<>>}

MaxAnalysisRows == 3   \* rows in one A property

RECURSIVE RowListsOf(_)
RowListsOf(k) ==
    IF k = 0 THEN {<<>>}
    ELSE RowListsOf(k - 1)
         \cup {Append(l, r) : l \in {x \in RowListsOf(k - 1) : Len(x) = k - 1},
                              r \in AnalysisRows}

\* the values of an A property: the rows, with or without the shared depth
\* in front
FnAnalysisValues ==
    {ply \o l : ply \in {<<>>, <<<<"0">>>>, <<<<" ", "2">>>>}, l \in RowListsOf(MaxAnalysisRows)}

\* the first row of a DA property: seven leading tokens, five probabilities,
\* the cubeless equity, then the tokens of 'more'
CubeRow(rating, version, p1, more) ==
    JoinTokens(<<rating, <<"v", "e", "r">>, version, <<"2", "C">>, <<"1">>, <<"0", ".", "0", "0", "0">>, <<"1">>,
                 p1, <<".", "1", "3", "5">>, <<".", "0", "0", "6">>, <<".", "1", "4", "1">>, <<".", "0", "0", "7">>, <<"0", ".", "0", "0", "1">>>> \o more)

FnCubeRows ==
    {CubeRow(rating, version, p1, more) :
        rating \in {<<"E">>, <<"G">>}, version \in {<<"3">>, <<"2">>},
        p1 \in {<<".", "5", "0", "4">>, <<".", "5">>},
        more \in {<<>>, <<<<"-", "0", ".", "1">>, <<".", "4">>>>}
                 \cup {<<nd, <<".", "4">>, <<".", "6">>>> : nd \in {<<"-", "0", ".", "1">>, <<"0">>, <<"0", ".", "3">>, <<"x">>}}}
    \cup {JoinTokens(<<<<"E">>, <<"v", "e", "r">>, <<"3">>, <<"2", "C">>, <<"1">>, <<"0", ".", "0", "0", "0">>, <<"1">>,
                       <<".", "5", "0", "4">>, <<".", "1", "3", "5">>, <<".", "0", "0", "6">>, <<".", "1", "4", "1">>, <<".", "0", "0", "7">>>>)}

FnRecordTypes == {MoveTypeNormal, MoveTypeDouble, MoveTypeTake, MoveTypeDrop}

InitFn ==
    /\ Starts([SGFStart(<<>>) EXCEPT !.pc = "idle"])
    /\ call = NoCall /\ lines = <<>> /\ m = Idle

\* the call of a function with its arguments, and what it returned
Called(fn, args, ret) ==
    /\ call' = [fn |-> fn, args |-> args, ret |-> ret]
    /\ UNCHANGED <<sgfVars, lines, m>>

CallFormatMove ==
    /\ call = NoCall
    /\ \E move \in FnMoveArrays, player \in {0, 1} :
           Called("FormatMove", <<move, player>>, FormatMove(move, player))

CallDecodePoint ==
    /\ call = NoCall
    /\ \E ch \in FnChars : Called("decodePoint", <<ch>>, decodePoint(ch))

CallParseEncodedMove ==
    /\ call = NoCall
    /\ \E q \in FnPairLists, player \in {0, 1} :
           LET mr == parseEncodedMove(SGFMoveText(q),
                                      [ZeroMoveRecord EXCEPT !.Player = player])
           IN  Called("parseEncodedMove", <<SGFMoveText(q), player>>,
                      <<mr.Move, mr.MoveString>>)

CallParseMatPoint ==
    /\ call = NoCall
    /\ \E s \in FnPointTexts : Called("parseMatPoint", <<s>>, parseMatPoint(s))

CallParseMatMove ==
    /\ call = NoCall
    /\ \E s \in FnMoveTexts : Called("parseMatMove", <<s>>, parseMatMove(s))

CallParseRules ==
    /\ call = NoCall
    /\ \E ru \in FnRulesTexts :
           Called("parseRules", <<ru, NewGame>>, parseRules(ru, NewGame))

CallParseResult ==
    /\ call = NoCall
    /\ \E re \in FnResultTexts :
           Called("parseResult", <<re, NewGame>>, parseResult(re, NewGame))

\* parseMoveAnalysis on the fresh record of a checker move
CallParseMoveAnalysis ==
    /\ call = NoCall
    /\ \E values \in FnAnalysisValues :
           LET mr == [ZeroMoveRecord EXCEPT !.Type = MoveTypeNormal]
           IN  Called("parseMoveAnalysis", <<values, mr>>,
                      parseMoveAnalysis(SetProperty(EmptyNode, "A", values), mr))

CallParseCubeAnalysis ==
    /\ call = NoCall
    /\ \E row \in FnCubeRows, type \in FnRecordTypes :
           LET mr == [ZeroMoveRecord EXCEPT !.Type = type]
           IN  Called("parseCubeAnalysis", <<row, mr>>,
                      parseCubeAnalysis(SetProperty(EmptyNode, "DA", <<row>>), mr))

NextFn ==
    \/ CallFormatMove
    \/ CallDecodePoint
    \/ CallParseEncodedMove
    \/ CallParseMatPoint
    \/ CallParseMatMove
    \/ CallParseRules
    \/ CallParseResult
    \/ CallParseMoveAnalysis
    \/ CallParseCubeAnalysis

SpecFn == InitFn /\ [][NextFn]_vars

(***************************************************************************)
(* Claims about the pure functions.                                        *)
(***************************************************************************)
\* the rendering of one stored point value for a side
RenderedPoint(v, player) ==
    IF v = Bar THEN <<"b", "a", "r">>
    ELSE IF v = Off THEN <<"o", "f", "f">>
    ELSE IF player = 1 THEN <<Lower[(23 - v) + 1]>>
    ELSE <<Lower[v + 1]>>

\* the rendering of the pairs of a Move array from slot i up to the first -1
RECURSIVE RenderedFrom(_, _, _)
RenderedFrom(move, player, i) ==
    IF i > MoveSlots \/ move[i] = -1 THEN <<>>
    ELSE (IF i > 1 THEN <<" ">> ELSE <<>>)
         \o RenderedPoint(move[i], player) \o <<"/">>
         \o RenderedPoint(move[i + 1], player)
         \o RenderedFrom(move, player, i + 2)

\* C7: FormatMove renders, for either side, a stored 24 as the word bar and
\* 25 as the word off, a board point p as the letter 'a'+p for side 0 and
\* 'a'+(23-p) for side 1, and an array whose first slot is -1 as no move.
C7_FormatMoveRendersBarAndOff ==
    (call.fn = "FormatMove") =>
        LET move   == call.args[1]
            player == call.args[2]
        IN  call.ret = IF move[1] = -1
                       THEN <<"n", "o", " ", "m", "o", "v", "e">>
                       ELSE RenderedFrom(move, player, 1)

\* the point name a flat-format point text stands for, 0 when it is none
PointNameOf(s) ==
    IF \E k \in PointNames : MatPointText(k) = s
    THEN CHOOSE k \in PointNames : MatPointText(k) = s
    ELSE 0

\* the move a flat-format move text stands for
PairListOf(s) == CHOOSE q \in FnPairLists : MatMoveText(q) = s

\* C8: parseMatPoint agrees with decodePoint: the numeral n in 1..24 decodes
\* to the value of the letter 'a'+(n-1), bar to the value of y (24) and off to
\* the value of z (25), so that the same move stored from either format
\* gives the same Move array.
C8_MatPointAgreesWithDecodePoint ==
    /\ (call.fn = "parseMatPoint" /\ PointNameOf(call.args[1]) # 0) =>
           LET k == PointNameOf(call.args[1])
           IN  /\ call.ret = decodePoint(SGFPointLetter(k))
               /\ call.ret = k - 1
    /\ (call.fn = "parseMatMove"
        /\ \E q \in FnPairLists : q # <<>> /\ MatMoveText(q) = call.args[1]) =>
           LET q == PairListOf(call.args[1])
           IN  call.ret = parseEncodedMove(SGFMoveText(q), ZeroMoveRecord).Move

(***************************************************************************)
(* The regular expressions of matparser.go.  Each is an operator from a    *)
(* line to the tuple of its submatches (FindStringSubmatch without the     *)
(* whole match), or NoSubmatch for nil.                                    *)
(***************************************************************************)
NoSubmatch == <<>>

Spaces == {" ", "\t", "\n", "\r"}

AllDigits(s) == s # <<>> /\ \A i \in DOMAIN s : IsDigit(s[i])

\* the length of the longest prefix of s made of characters in 'set'
RECURSIVE PrefixLen(_, _)
PrefixLen(s, set) ==
    IF s # <<>> /\ Head(s) \in set THEN 1 + PrefixLen(Tail(s), set) ELSE 0

\* ^\s*(\d+)\s+point\s+match\s*$
matchHeaderRe(line) ==
    LET f == Fields(line)
    IN  IF Len(f) = 3 /\ AllDigits(f[1])
           /\ f[2] = <<"p", "o", "i", "n", "t">>
           /\ f[3] = <<"m", "a", "t", "c", "h">>
        THEN <<f[1]>> ELSE NoSubmatch

\* ^\s*Game\s+(\d+)\s*$
gameHeaderRe(line) ==
    LET f == Fields(line)
    IN  IF Len(f) = 2 /\ f[1] = <<"G", "a", "m", "e">> /\ AllDigits(f[2])
        THEN <<f[2]>> ELSE NoSubmatch

\* ^\s*Wins\s+(\d+)\s+points?\s*$
winsLineRe(line) ==
    LET f == Fields(line)
    IN  IF Len(f) = 3 /\ f[1] = <<"W", "i", "n", "s">> /\ AllDigits(f[2])
           /\ f[3] \in {<<"p", "o", "i", "n", "t">>, <<"p", "o", "i", "n", "t", "s">>}
        THEN <<f[2]>> ELSE NoSubmatch

\* ^\s*(\d+)\)\s*(.*)$
moveLineRe(line) ==
    LET t == TrimLeftSet(line, Spaces)
        n == PrefixLen(t, Range(Digits))
    IN  IF n >= 1 /\ Len(t) > n /\ t[n + 1] = ")"
        THEN <<Take(t, n), TrimLeftSet(Drop(t, n + 1), Spaces)>>
        ELSE NoSubmatch

\* ^\s*[;#]\s*(.*)$
commentLineRe(line) ==
    LET t == TrimLeftSet(line, Spaces)
    IN  IF t # <<>> /\ Head(t) \in {";", "#"}
        THEN <<TrimLeftSet(Tail(t), Spaces)>>
        ELSE NoSubmatch

\* ^(\d)(\d):\s*(.*)$
diceAndMoveRe(part) ==
    IF Len(part) >= 3 /\ IsDigit(part[1]) /\ IsDigit(part[2]) /\ part[3] = ":"
    THEN <<<<part[1]>>, <<part[2]>>, TrimLeftSet(Drop(part, 3), Spaces)>>
    ELSE NoSubmatch

\* ^Doubles\s*=>\s*(\d+)\s*$
doublesRe(part) ==
    LET word == <<"D", "o", "u", "b", "l", "e", "s">>
        r1   == TrimLeftSet(Drop(part, Len(word)), Spaces)
        r2   == TrimRightSet(TrimLeftSet(Drop(r1, 2), Spaces), Spaces)
    IN  IF HasPrefix(part, word) /\ HasPrefix(r1, <<"=", ">">>) /\ AllDigits(r2)
        THEN <<r2>> ELSE NoSubmatch

\* ^Takes\s*$
takesRe(part) ==
    HasPrefix(part, <<"T", "a", "k", "e", "s">>)
    /\ TrimRightSet(part, Spaces) = <<"T", "a", "k", "e", "s">>

\* ^Drops\s*$
dropsRe(part) ==
    HasPrefix(part, <<"D", "r", "o", "p", "s">>)
    /\ TrimRightSet(part, Spaces) = <<"D", "r", "o", "p", "s">>

\* the extent matched by the group (\S+.*?) at the start of u, given the
\* set 'fits' of the extents after which the rest of the expression matches:
\* the greedy \S+ is tried at its longest first and the lazy .*? at its
\* shortest, so the extents are tried from the leading run of non-spaces
\* upwards, then from that run downwards; 0 if none fits
nameExtent(u, fits) ==
    LET r    == Len(u) - Len(TrimLeftSet(u, {u[i] : i \in DOMAIN u} \ Spaces))
        up   == {e \in fits : e >= r /\ e >= 1}
        down == {e \in fits : e >= 1 /\ e < r}
    IN  IF up # {} THEN CHOOSE e \in up : \A x \in up : e <= x
        ELSE IF down # {} THEN CHOOSE e \in down : \A x \in down : e >= x
        ELSE 0

\* ^\s*:\s*(\d+)\s*$ , the end of scoreLineRe
scoreTailRe(t) ==
    LET t1 == TrimLeftSet(t, Spaces)
        r  == Trim(Tail(t1), Spaces)
    IN  IF t1 # <<>> /\ Head(t1) = ":" /\ AllDigits(r) THEN <<r>> ELSE NoSubmatch

scoreTailOk(t) == scoreTailRe(t) # NoSubmatch

\* ^\s*:\s*(\d+)\s+(\S+.*?)\s*:\s*(\d+)\s*$ , scoreLineRe after its first group
scoreMidRe(t) ==
    LET t1 == TrimLeftSet(t, Spaces)
        t2 == TrimLeftSet(Tail(t1), Spaces)
        n  == PrefixLen(t2, Range(Digits))
        t3 == Drop(t2, n)
        u  == TrimLeftSet(t3, Spaces)
        e  == nameExtent(u, {x \in 1..Len(u) : scoreTailOk(Drop(u, x))})
    IN  IF t1 # <<>> /\ Head(t1) = ":" /\ n >= 1 /\ Len(u) < Len(t3)
           /\ u # <<>> /\ e > 0
        THEN <<Take(t2, n), Take(u, e), scoreTailRe(Drop(u, e))[1]>>
        ELSE NoSubmatch

scoreMidOk(t) == scoreMidRe(t) # NoSubmatch

\* ^\s*(\S+.*?)\s*:\s*(\d+)\s+(\S+.*?)\s*:\s*(\d+)\s*$
scoreLineRe(line) ==
    LET u == TrimLeftSet(line, Spaces)
        e == nameExtent(u, {x \in 1..Len(u) : scoreMidOk(Drop(u, x))})
    IN  IF u # <<>> /\ e > 0
        THEN <<Take(u, e)>> \o scoreMidRe(Drop(u, e))
        ELSE NoSubmatch

\* \[Tag\s+"([^"]+)"\] anchored at the start of c
quotedTagAt(c, tag) ==
    LET open == <<"[">> \o tag
        c1   == Drop(c, Len(open))
        c2   == TrimLeftSet(c1, Spaces)
        body == Tail(c2)
        n    == PrefixLen(body, {body[i] : i \in DOMAIN body} \ {"\""})
    IN  IF HasPrefix(c, open) /\ Len(c2) < Len(c1) /\ c2 # <<>> /\ Head(c2) = "\""
           /\ n >= 1 /\ HasPrefix(Drop(body, n), <<"\"", "]">>)
        THEN <<Take(body, n)>> ELSE NoSubmatch

\* the leftmost match of \[Tag\s+"([^"]+)"\] in the comment (eventRe, roundRe,
\* siteRe, transcriberRe)
quotedTagRe(comment, tag) ==
    LET at == {i \in 0..Len(comment) : quotedTagAt(Drop(comment, i), tag) # NoSubmatch}
    IN  IF at = {} THEN NoSubmatch
        ELSE quotedTagAt(Drop(comment, CHOOSE i \in at : \A x \in at : i <= x), tag)

\* whether v is \d{4}\.\d{2}\.\d{2}
IsDateValue(v) ==
    /\ Len(v) = 10 /\ v[5] = "." /\ v[8] = "."
    /\ \A i \in {1, 2, 3, 4, 6, 7, 9, 10} : IsDigit(v[i])

\* \[EventDate\s+"(\d{4})\.(\d{2})\.(\d{2})"\]
eventDateRe(comment) ==
    LET tag == <<"E", "v", "e", "n", "t", "D", "a", "t", "e">>
        at  == {i \in 0..Len(comment) :
                   /\ quotedTagAt(Drop(comment, i), tag) # NoSubmatch
                   /\ IsDateValue(quotedTagAt(Drop(comment, i), tag)[1])}
        v   == quotedTagAt(Drop(comment, CHOOSE i \in at : \A x \in at : i <= x), tag)[1]
    IN  IF at = {} THEN NoSubmatch
        ELSE <<SubSeq(v, 1, 4), SubSeq(v, 6, 7), SubSeq(v, 9, 10)>>

\* fmt.Sprintf("%0wd", n) for n >= 0
RECURSIVE ZeroPad(_, _)
ZeroPad(ds, w) == IF Len(ds) >= w THEN ds ELSE ZeroPad(<<"0">> \o ds, w)

splitMoveLine(line) ==
    LET gaps == {i \in 1..(Len(line) - 2) :
                    line[i] \in Spaces /\ line[i + 1] \in Spaces /\ line[i + 2] \in Spaces}
        loc0 == (CHOOSE i \in gaps : \A x \in gaps : i <= x) - 1
        loc1 == loc0 + PrefixLen(Drop(line, loc0), Spaces)
    IN  IF gaps # {}
        THEN <<TrimSpace(Take(line, loc0)), TrimSpace(Drop(line, loc1))>>
        ELSE <<TrimSpace(line), <<>>>>

(***************************************************************************)
(* MATParser.parse and MATParser.parseGame, one step for each line that    *)
(* the scanner delivers.  ls is the sequence of lines of the input and s   *)
(* the state: pos the lines scanned so far, lineNum the parser's counter,  *)
(* the locals of parse and parseGame, and what ParseMAT has returned.      *)
(***************************************************************************)
MATStart ==
    [pc |-> "matHeader", pos |-> 0, lineNum |-> 0, matchLength |-> 0,
     match |-> ZeroMatch, gameNumber |-> 0, game |-> Nil, currentPlayer |-> 1,
     cubeValue |-> 1, ret |-> NoMatch, err |-> ""]

\* scanner.Scan() has a line to deliver
CanScan(ls, s) == s.pos < Len(ls)

\* scanner.Text() after the Scan
Text(ls, s) == ls[s.pos + 1]

parseMetadataComment(mt, comment) ==
    LET date == eventDateRe(comment)
        ev   == quotedTagRe(comment, <<"E", "v", "e", "n", "t">>)
        ro   == quotedTagRe(comment, <<"R", "o", "u", "n", "d">>)
        si   == quotedTagRe(comment, <<"S", "i", "t", "e">>)
        tr   == quotedTagRe(comment,
                            <<"T", "r", "a", "n", "s", "c", "r", "i", "b", "e", "r">>)
    IN  IF date # NoSubmatch
        THEN [mt EXCEPT !.Metadata.Date =
                 ZeroPad(Itoa(Atoi(date[1]).v), 4) \o <<"-">>
                 \o ZeroPad(Itoa(Atoi(date[2]).v), 2) \o <<"-">>
                 \o ZeroPad(Itoa(Atoi(date[3]).v), 2)]
        ELSE IF ev # NoSubmatch THEN [mt EXCEPT !.Metadata.Event = ev[1]]
        ELSE IF ro # NoSubmatch THEN [mt EXCEPT !.Metadata.Round = ro[1]]
        ELSE IF si # NoSubmatch THEN [mt EXCEPT !.Metadata.Place = si[1]]
        ELSE IF tr # NoSubmatch THEN [mt EXCEPT !.Metadata.Annotator = tr[1]]
        ELSE mt

\* one turn of parse's first loop: comments and the match header
matParseHeader(ls, s) ==
    IF ~CanScan(ls, s) THEN [s EXCEPT !.pc = "matHeaderCheck"]
    ELSE LET line == Text(ls, s)
             s1   == [s EXCEPT !.pos = @ + 1, !.lineNum = @ + 1]
         IN  IF commentLineRe(line) # NoSubmatch
             THEN [s1 EXCEPT !.match = parseMetadataComment(@, commentLineRe(line)[1])]
             ELSE IF matchHeaderRe(line) # NoSubmatch
             THEN [s1 EXCEPT !.matchLength = Atoi(matchHeaderRe(line)[1]).v,
                             !.match.Metadata.MatchLength = Atoi(matchHeaderRe(line)[1]).v,
                             !.pc = "matHeaderCheck"]
             ELSE s1

\* if matchLength == 0 && !p.scanner.Scan() { return nil, error }
matParseCheck(ls, s) ==
    IF s.matchLength = 0
    THEN IF CanScan(ls, s)
         THEN [s EXCEPT !.pos = @ + 1, !.pc = "matGameHeader", !.gameNumber = 0]
         ELSE [s EXCEPT !.pc = "error",
                        !.err = "invalid MAT file: no match header found"]
    ELSE [s EXCEPT !.pc = "matGameHeader", !.gameNumber = 0]

\* one turn of parseGame's first loop, which looks for the game header;
\* io.EOF from parseGame ends the loop of parse
matParseGameHeader(ls, s) ==
    IF ~CanScan(ls, s) THEN [s EXCEPT !.pc = "matReturn"]
    ELSE LET line == Text(ls, s)
             s1   == [s EXCEPT !.pos = @ + 1, !.lineNum = @ + 1]
             num  == Atoi(gameHeaderRe(line)[1]).v
         IN  IF gameHeaderRe(line) = NoSubmatch THEN s1
             ELSE IF num = 0 THEN [s1 EXCEPT !.pc = "matReturn"]
             ELSE [s1 EXCEPT !.gameNumber = num, !.pc = "matScore"]

\* Game{...} as parseGame builds it from the score line
MATGame(gameNumber, score1, score2, matchLength) ==
    [ZeroGame EXCEPT !.GameNumber = gameNumber, !.Score = <<score1, score2>>,
                     !.Variation = "Standard", !.Crawford = (matchLength > 0),
                     !.Jacoby = (matchLength = 0), !.CubeEnabled = TRUE,
                     !.Winner = -1,
                     !.CrawfordGame =
                         /\ matchLength > 0
                         /\ \/ score1 = matchLength - 1 /\ score2 < matchLength - 1
                            \/ score2 = matchLength - 1 /\ score1 < matchLength - 1]

\* the score line of parseGame
matParseScore(ls, s) ==
    IF ~CanScan(ls, s) THEN [s EXCEPT !.pc = "matReturn"]
    ELSE LET s1      == [s EXCEPT !.pos = @ + 1, !.lineNum = @ + 1]
             matches == scoreLineRe(Text(ls, s))
             player1 == TrimSpace(matches[1])
             score1  == Atoi(matches[2]).v
             player2 == TrimSpace(matches[3])
             score2  == Atoi(matches[4]).v
             named   == IF s.gameNumber = 1
                        THEN [s1.match EXCEPT
                                 !.Metadata.Player1 = TrimSpace(Split(player1, <<",">>)[1]),
                                 !.Metadata.Player2 = TrimSpace(Split(player2, <<",">>)[1])]
                        ELSE s1.match
         IN  IF matches = NoSubmatch
             THEN [s1 EXCEPT !.pc = "error", !.err = "error parsing game: invalid score line"]
             ELSE [s1 EXCEPT !.match = named,
                             !.game = MATGame(s.gameNumber, score1, score2, s.matchLength),
                             !.currentPlayer = 1, !.cubeValue = 1,
                             !.pc = "matMoves"]

\* the body of the loop over the two parts of a move row, from part i
\* (0-based); g holds game, currentPlayer and cubeValue
RECURSIVE matMoveParts(_, _, _)
matMoveParts(g, parts, i) ==
    IF i >= 2 THEN g
    ELSE LET part   == parts[i + 1]
             player == i
             dm     == diceAndMoveRe(part)
             moveStr == TrimSpace(dm[3])
             move   == [ZeroMoveRecord EXCEPT
                           !.Type = MoveTypeNormal, !.Player = player,
                           !.Dice = <<Atoi(dm[1]).v, Atoi(dm[2]).v>>,
                           !.MoveString = moveStr,
                           !.Move = IF moveStr # <<>> THEN parseMatMove(moveStr) ELSE @]
         IN  IF part = <<>> THEN matMoveParts(g, parts, i + 1)
             ELSE IF doublesRe(part) # NoSubmatch
             THEN matMoveParts(
                      [g EXCEPT !.game.Moves = Append(@,
                                    [ZeroMoveRecord EXCEPT
                                        !.Type = MoveTypeDouble, !.Player = player,
                                        !.CubeValue = Atoi(doublesRe(part)[1]).v]),
                                !.currentPlayer = player],
                      parts, i + 1)
             ELSE IF takesRe(part)
             THEN matMoveParts(
                      [g EXCEPT !.game.Moves = Append(@,
                                    [ZeroMoveRecord EXCEPT
                                        !.Type = MoveTypeTake, !.Player = player]),
                                !.cubeValue = @ * 2,
                                !.currentPlayer = player],
                      parts, i + 1)
             ELSE IF dropsRe(part)
             THEN [g EXCEPT !.game.Moves = Append(@,
                                [ZeroMoveRecord EXCEPT
                                    !.Type = MoveTypeDrop, !.Player = player]),
                            !.game.Winner = 1 - player,
                            !.currentPlayer = 1 - player]
             ELSE IF dm # NoSubmatch
             THEN matMoveParts([g EXCEPT !.game.Moves = Append(@, move),
                                         !.currentPlayer = player],
                               parts, i + 1)
             ELSE matMoveParts(g, parts, i + 1)

\* parseGame returns the game and parse appends it to match.Games
matAppendGame(s) ==
    [s EXCEPT !.match.Games = Append(@, s.game), !.game = Nil,
              !.gameNumber = 0, !.pc = "matGameHeader"]

\* one turn of parseGame's loop over the lines of the game
matParseMoves(ls, s) ==
    IF ~CanScan(ls, s) THEN matAppendGame(s)
    ELSE LET line == Text(ls, s)
             s1   == [s EXCEPT !.pos = @ + 1, !.lineNum = @ + 1]
         IN  IF winsLineRe(line) # NoSubmatch
             THEN matAppendGame([s1 EXCEPT !.game.Points = Atoi(winsLineRe(line)[1]).v,
                                           !.game.Winner = s.currentPlayer])
             ELSE IF TrimSpace(line) = <<>> THEN s1
             ELSE IF gameHeaderRe(line) # NoSubmatch THEN matAppendGame(s1)
             ELSE IF moveLineRe(line) # NoSubmatch
             THEN LET g == matMoveParts([game |-> s1.game,
                                         currentPlayer |-> s1.currentPlayer,
                                         cubeValue |-> s1.cubeValue],
                                        splitMoveLine(moveLineRe(line)[2]), 0)
                  IN  [s1 EXCEPT !.game = g.game, !.currentPlayer = g.currentPlayer,
                                 !.cubeValue = g.cubeValue]
             ELSE s1

\* the end of parse, after parseGame has returned io.EOF
matParseReturn(s) ==
    IF Len(s.match.Games) = 0
    THEN [s EXCEPT !.pc = "error", !.err = "no games found in MAT file"]
    ELSE [s EXCEPT !.pc = "done", !.ret = s.match]

(***************************************************************************)
(* Flat-format inputs: a header part, then game sections, each a game      *)
(* header, a score line, move rows and an optional line with the winner's  *)
(* points, followed by a blank line.                                       *)
(***************************************************************************)
MaxGames == 2      \* game sections in one flat-format input
MaxRows == 2       \* move rows in the game section of a one-game input

Blank == <<>>

ColumnGap == <<" ", " ", " ", " ">>

MatchHeaderLine(n) == <<" ">> \o Itoa(n) \o <<" ", "p", "o", "i", "n", "t", " ", "m", "a", "t", "c", "h">>

GameLine(n) == <<" ", "G", "a", "m", "e", " ">> \o Itoa(n)

ScoreLine(a, b) ==
    <<" ", "A", "n", "n", " ", ":", " ">> \o Itoa(a) \o ColumnGap \o <<"B", "o", "b", " ", ":", " ">> \o Itoa(b)

WinsLine(n) == ColumnGap \o <<"W", "i", "n", "s", " ">> \o Itoa(n) \o <<" ", "p", "o", "i", "n", "t", "s">>

CommentLines ==
    {<<";", " ", "[", "E", "v", "e", "n", "t", "D", "a", "t", "e", " ", "\"", "2", "0", "2", "5", ".", "1", "1", ".", "0", "8", "\"", "]">>,
     <<"#", " ", "[", "S", "i", "t", "e", " ", "\"", "x", "\"", "]", " ", "[", "E", "v", "e", "n", "t", " ", "\"", "y", "\"", "]">>}

\* the two columns of the kinds of move row
RowColumns ==
    <<[left |-> <<>>, right |-> <<"4", "1", ":", " ", "1", "3", "/", "9", " ", "2", "4", "/", "2", "3">>],
      [left |-> <<"3", "1", ":", " ", "6", "/", "5", " ", "8", "/", "5">>, right |-> <<"6", "2", ":", " ", "b", "a", "r", "/", "2", "3", " ", "9", "/", "3", "*">>],
      [left |-> <<"D", "o", "u", "b", "l", "e", "s", " ", "=", ">", " ", "2">>, right |-> <<"T", "a", "k", "e", "s">>],
      [left |-> <<"D", "o", "u", "b", "l", "e", "s", " ", "=", ">", " ", "2">>, right |-> <<"D", "r", "o", "p", "s">>],
      [left |-> <<"6", "4", ":", " ", "6", "/", "o", "f", "f", " ", "4", "/", "o", "f", "f">>, right |-> <<>>]>>

RowKinds == DOMAIN RowColumns

\* row n of a game, of kind k: a blank left column is a run of spaces as
\* wide as a column
RowLine(n, k) ==
    <<" ", " ">> \o Itoa(n) \o <<")", " ">>
    \o (IF RowColumns[k].left = <<>>
        THEN ColumnGap \o ColumnGap \o ColumnGap
        ELSE RowColumns[k].left)
    \o (IF RowColumns[k].right = <<>> THEN <<>> ELSE ColumnGap \o RowColumns[k].right)

\* the lists of at most n row kinds
RECURSIVE RowLists(_)
RowLists(n) ==
    IF n = 0 THEN {<<>>}
    ELSE RowLists(n - 1)
         \cup {Append(r, k) : r \in {x \in RowLists(n - 1) : Len(x) = n - 1}, k \in RowKinds}

\* the row lists of the sections of an input with several games
ShortRowLists == {<<>>, <<1>>, <<2>>, <<4>>}

\* game section n, which starts at the score (n - 1) : 0
Section(n, rows, wins) ==
    <<GameLine(n), ScoreLine(n - 1, 0)>>
    \o [i \in DOMAIN rows |-> RowLine(i, rows[i])]
    \o (IF wins THEN <<WinsLine(1)>> ELSE <<>>)
    \o <<Blank>>

\* the sections n..k of an input with k games
RECURSIVE SectionsFrom(_, _)
SectionsFrom(n, k) ==
    IF n > k THEN {<<>>}
    ELSE {Section(n, rows, wins) \o rest :
              rows \in ShortRowLists, wins \in BOOLEAN, rest \in SectionsFrom(n + 1, k)}

\* the header part: a match header for length 3 or for a money game, with
\* or without a blank line after it, or after comment lines
HeaderParts ==
    {<<MatchHeaderLine(n)>> \o after : n \in {0, 3}, after \in {<<>>, <<Blank>>}}
    \cup {<<c, Blank, MatchHeaderLine(3), Blank>> : c \in CommentLines}

OneGameInputs ==
    {h \o Section(1, rows, wins) :
        h \in HeaderParts, rows \in RowLists(MaxRows), wins \in BOOLEAN}

ManyGameInputs ==
    UNION {{h \o ss : h \in HeaderParts, ss \in SectionsFrom(1, k)} : k \in 2..MaxGames}

\* inputs that are no match: nothing, no header, no game, a bad score line
BrokenInputs ==
    {<<>>, <<Blank>>, <<MatchHeaderLine(3), Blank>>,
     Section(1, <<2>>, TRUE),
     <<MatchHeaderLine(3), GameLine(1), <<" ", "A", "n", "n", " ", "0", " ", " ", " ", " ", "B", "o", "b", " ", "0">>>>,
     <<MatchHeaderLine(3), GameLine(0), ScoreLine(0, 0), RowLine(1, 2)>>,
     <<MatchHeaderLine(3), GameLine(1)>>}

MATInputs == OneGameInputs \cup ManyGameInputs \cup BrokenInputs

(***************************************************************************)
(* ParseMAT as a state machine.                                            *)
(***************************************************************************)
StepMAT(ls, s) ==
    CASE s.pc = "matHeader" -> matParseHeader(ls, s)
      [] s.pc = "matHeaderCheck" -> matParseCheck(ls, s)
      [] s.pc = "matGameHeader" -> matParseGameHeader(ls, s)
      [] s.pc = "matScore" -> matParseScore(ls, s)
      [] s.pc = "matMoves" -> matParseMoves(ls, s)
      [] s.pc = "matReturn" -> matParseReturn(s)
      [] OTHER -> s

\* ParseMAT run to its return
RECURSIVE RunMAT(_, _)
RunMAT(ls, s) == IF s.pc \in {"done", "error"} THEN s ELSE RunMAT(ls, StepMAT(ls, s))

InitMAT ==
    /\ Starts([SGFStart(<<>>) EXCEPT !.pc = "idle"])
    /\ call = NoCall
    /\ lines \in MATInputs
    /\ m = MATStart

MatBecomes(s) ==
    /\ m' = s
    /\ UNCHANGED <<sgfVars, call, lines>>

MatParseHeader == m.pc = "matHeader" /\ MatBecomes(matParseHeader(lines, m))
MatParseCheck == m.pc = "matHeaderCheck" /\ MatBecomes(matParseCheck(lines, m))
MatParseGameHeader == m.pc = "matGameHeader" /\ MatBecomes(matParseGameHeader(lines, m))
MatParseScore == m.pc = "matScore" /\ MatBecomes(matParseScore(lines, m))
MatParseMoves == m.pc = "matMoves" /\ MatBecomes(matParseMoves(lines, m))
MatParseReturn == m.pc = "matReturn" /\ MatBecomes(matParseReturn(m))

NextMAT ==
    \/ MatParseHeader
    \/ MatParseCheck
    \/ MatParseGameHeader
    \/ MatParseScore
    \/ MatParseMoves
    \/ MatParseReturn

SpecMAT == InitMAT /\ [][NextMAT]_vars

MATReturned == m.pc \in {"done", "error"}

(***************************************************************************)
(* Claims about ParseMAT.                                                  *)
(***************************************************************************)
IsRowLine(l) == \E n \in 1..MaxRows, k \in RowKinds : l = RowLine(n, k)

RowKindOf(l) == CHOOSE k \in RowKinds : \E n \in 1..MaxRows : l = RowLine(n, k)

\* the record type of the action written in a column
ColumnType(text) ==
    IF HasPrefix(text, <<"D", "o">>) THEN MoveTypeDouble
    ELSE IF HasPrefix(text, <<"T">>) THEN MoveTypeTake
    ELSE IF HasPrefix(text, <<"D", "r">>) THEN MoveTypeDrop
    ELSE MoveTypeNormal

\* the side and type of the records of a move row: the left column's action
\* for side 0, then the right column's action for side 1
RowRecords(l) ==
    LET c == RowColumns[RowKindOf(l)]
    IN  (IF c.left = <<>> THEN <<>>
         ELSE <<[Player |-> 0, Type |-> ColumnType(c.left)]>>)
        \o (IF c.right = <<>> THEN <<>>
            ELSE <<[Player |-> 1, Type |-> ColumnType(c.right)]>>)

RECURSIVE RowRecordsOf(_)
RowRecordsOf(ls) ==
    IF ls = <<>> THEN <<>>
    ELSE (IF IsRowLine(Head(ls)) THEN RowRecords(Head(ls)) ELSE <<>>)
         \o RowRecordsOf(Tail(ls))

\* C3: in a Match returned for a one-game input, each move row has its left
\* column's action recorded with Player = 0 and its right column's action
\* with Player = 1, and a row whose left column is blank gives a single
\* record with Player = 1.
C3_ColumnsGiveThePlayer ==
    (m.pc = "done" /\ lines \in OneGameInputs) =>
        LET mv == m.ret.Games[1].Moves
        IN  /\ Len(mv) = Len(RowRecordsOf(lines))
            /\ \A j \in DOMAIN mv :
                   /\ mv[j].Player = RowRecordsOf(lines)[j].Player
                   /\ mv[j].Type = RowRecordsOf(lines)[j].Type

IsGameLine(l) == \E n \in 1..MaxGames : l = GameLine(n)

IsScoreLine(l) == \E a, b \in 0..MaxGames : l = ScoreLine(a, b)

\* the numbers written in the game headers of the input, in file order
GameNumbersOf(ls) ==
    LET hs == SelectSeq(ls, IsGameLine)
    IN  [i \in DOMAIN hs |-> CHOOSE n \in 1..MaxGames : hs[i] = GameLine(n)]

\* the scores written in the score lines of the input, in file order
ScoresOf(ls) ==
    LET sc == SelectSeq(ls, IsScoreLine)
    IN  [i \in DOMAIN sc |->
            CHOOSE ab \in (0..MaxGames) \X (0..MaxGames) : sc[i] = ScoreLine(ab[1], ab[2])]

\* an input made of a match header and k game sections gives k Games, in
\* file order, each with the GameNumber and the Score of its own section
OneGamePerSection ==
    (MATReturned /\ lines \in OneGameInputs \cup ManyGameInputs) =>
        /\ m.pc = "done"
        /\ Len(m.ret.Games) = Len(GameNumbersOf(lines))
        /\ \A i \in DOMAIN m.ret.Games :
               /\ m.ret.Games[i].GameNumber = GameNumbersOf(lines)[i]
               /\ m.ret.Games[i].Score = ScoresOf(lines)[i]

\* C4: for an input made of a match header (here of a positive length) and
\* k game sections, each a game header, a score line, move rows and an
\* optional line with the winner's points, ParseMAT returns exactly k Games,
\* in file order, each with the GameNumber and the Score of its own section.
C4_OneGamePerSection ==
    (m.matchLength > 0) => OneGamePerSection

(***************************************************************************)
(* The character stream on its own: readChar, peekChar, unreadChar and     *)
(* skipWhitespace called in any order on one SGFParser, unreadChar only    *)
(* after a readChar that returned a character, as parseProperty calls it.  *)
(* call.ret is the history of the calls: the operation, what it returned   *)
(* and the reader's offset after it.                                       *)
(***************************************************************************)
MaxStreamLen == 3  \* characters in the input of the stream
MaxStreamOps == 5  \* calls made on the stream

RECURSIVE StreamTexts(_)
StreamTexts(n) ==
    IF n = 0 THEN {<<>>}
    ELSE StreamTexts(n - 1)
         \cup {Append(t, c) : t \in {x \in StreamTexts(n - 1) : Len(x) = n - 1},
                              c \in {"a", "b", " "}}

InitStream ==
    /\ \E in \in StreamTexts(MaxStreamLen) : Starts([SGFStart(in) EXCEPT !.pc = "stream"])
    /\ call = [fn |-> "stream", args |-> <<>>, ret |-> <<>>]
    /\ lines = <<>> /\ m = Idle

\* the stream is left as q by a call of op that returned (ch, eof)
StreamCalled(op, q, ch, eof) ==
    /\ Len(call.ret) < MaxStreamOps
    /\ p' = q
    /\ call' = [call EXCEPT !.ret = Append(@, [op |-> op, ch |-> ch, eof |-> eof,
                                                at |-> q.reader])]
    /\ UNCHANGED <<input, pc, games, root, depth, node, prop, val, match, err, lines, m>>

StreamReadChar ==
    LET r == readChar(input, p) IN StreamCalled("readChar", r.p, r.ch, r.eof)

StreamPeekChar ==
    LET r == peekChar(input, p) IN StreamCalled("peekChar", r.p, r.ch, r.eof)

StreamUnreadChar ==
    /\ call.ret # <<>>
    /\ call.ret[Len(call.ret)].op = "readChar"
    /\ ~call.ret[Len(call.ret)].eof
    /\ StreamCalled("unreadChar", unreadChar(p), NUL, FALSE)

StreamSkipWhitespace ==
    StreamCalled("skipWhitespace", skipWhitespace(input, p), NUL, FALSE)

NextStream ==
    \/ StreamReadChar
    \/ StreamPeekChar
    \/ StreamUnreadChar
    \/ StreamSkipWhitespace

SpecStream == InitStream /\ [][NextStream]_vars

\* call i of the history is a readChar that returned a character and call
\* i + 1 is the unreadChar of it
UnreadAt(h, i) ==
    /\ i + 1 <= Len(h)
    /\ h[i].op = "readChar" /\ ~h[i].eof
    /\ h[i + 1].op = "unreadChar"

\* the calls i + 2 .. i + 1 + Len(ops) of the history are the operations ops
FollowedBy(h, i, ops) ==
    /\ i + 1 + Len(ops) <= Len(h)
    /\ \A k \in DOMAIN ops : h[i + 1 + k].op = ops[k]

\* C11: when a readChar that returned the character c is followed by
\* unreadChar, a peekChar then returns c, the readChar after it returns c
\* again, and the readChar after that returns the input character that
\* follows c (or the end of the input when c is the last one).
C11_UnreadThenPeekReturnsTheCharacter ==
    \A i \in DOMAIN call.ret :
        UnreadAt(call.ret, i) =>
            LET h == call.ret
                c == h[i].ch
            IN  /\ c = input[h[i].at]
                /\ FollowedBy(h, i, <<"peekChar">>) =>
                       (~h[i + 2].eof /\ h[i + 2].ch = c)
                /\ FollowedBy(h, i, <<"readChar">>) =>
                       (~h[i + 2].eof /\ h[i + 2].ch = c)
                /\ FollowedBy(h, i, <<"peekChar", "readChar">>) =>
                       (~h[i + 3].eof /\ h[i + 3].ch = c)
                /\ FollowedBy(h, i, <<"peekChar", "readChar", "readChar">>) =>
                       IF h[i].at < Len(input)
                       THEN ~h[i + 4].eof /\ h[i + 4].ch = input[h[i].at + 1]
                       ELSE h[i + 4].eof

\* a character was read, unread, peeked and read again, and the character
\* after it was read
C11_Witness ==
    \E i \in DOMAIN call.ret :
        /\ UnreadAt(call.ret, i)
        /\ FollowedBy(call.ret, i, <<"peekChar", "readChar", "readChar">>)
        /\ ~call.ret[i + 4].eof
        /\ call.ret[i + 4].ch # call.ret[i].ch

(***************************************************************************)
(* Claims about the tree parser: values, the end of the input, errors.     *)
(***************************************************************************)
\* the text a raw value stands for: a backslash is dropped and the
\* character after it kept
RECURSIVE Unescaped(_)
Unescaped(raw) ==
    IF raw = <<>> THEN <<>>
    ELSE IF Head(raw) = "\\" THEN <<raw[2]>> \o Unescaped(Drop(raw, 2))
    ELSE <<Head(raw)>> \o Unescaped(Tail(raw))

\* C12: within a property value a backslash makes the following character
\* literal and is itself dropped, the value ends at the first unescaped ']',
\* and every other character, white space included, is kept in order: the
\* value written a\]b is the text a]b.
C12_BackslashMakesLiteral ==
    \A raw \in RawValues :
        (Returned /\ input = ValueInput(raw)) =>
            /\ pc = "done"
            /\ Len(games) = 1 /\ Len(games[1]) = 1
            /\ DOMAIN games[1][1] = {"C"}
            /\ games[1][1]["C"] = <<Unescaped(raw)>>

\* the value written a\]b has been parsed to the text a]b
C12_Witness ==
    /\ pc = "done"
    /\ input = ValueInput(<<"a", "\\", "]", "b">>)
    /\ games[1][1]["C"] = <<<<"a", "]", "b">>>>

\* the input follows the grammar up to its last character and ends inside a
\* property value or inside a game tree
EndsInside(in) ==
    LET st == GrammarRun(in, 1, GrammarStart)
    IN  st.mode # "bad" /\ st.d >= 1

\* C13: if the input ends inside a property value or inside a game tree,
\* ParseSGF returns an error and no Match, also when complete game trees
\* came before the unterminated one.
C13_UnterminatedInputIsAnError ==
    (Returned /\ EndsInside(input)) => (err # "" /\ match = NoMatch)

\* C13 for the inputs that have no variation
C13_WithoutVariations ==
    (RemoveVariations(input) = input) => C13_UnterminatedInputIsAnError

\* the state of the grammar after the first n characters of the input
GrammarAt(in, n) == GrammarRun(Take(in, n), 1, GrammarStart)

\* no game tree is found: the first character that is not white space, if
\* there is one, is not '('
NoGameTree(in) == \A n \in 1..Len(in) : GrammarAt(in, n).mode \in {"top", "bad"}

\* the first character that the grammar does not permit stands inside a game
\* tree
SyntaxErrorInsideTree(in) ==
    \E n \in 1..Len(in) :
        GrammarAt(in, n).mode = "bad" /\ GrammarAt(in, n - 1).d >= 1

EmptyError == "empty SGF file"

\* C14: an input in which no game tree is found yields the 'empty' error, an
\* input with a syntax error inside a game tree yields an error that is not
\* the 'empty' error, and no input yields both a Match and an error.
C14_EmptyIsReportedSeparately ==
    Returned =>
        /\ NoGameTree(input) => (err = EmptyError /\ match = NoMatch)
        /\ SyntaxErrorInsideTree(input) => (err \notin {"", EmptyError} /\ match = NoMatch)
        /\ (match = NoMatch) = (err # "")

\* C14 without the promise that a syntax error inside a game tree is
\* reported: an error that is reported for such an input is not the 'empty'
\* error
C14_ReportedErrorsAreSeparate ==
    Returned =>
        /\ NoGameTree(input) => (err = EmptyError /\ match = NoMatch)
        /\ SyntaxErrorInsideTree(input) => (err # EmptyError)
        /\ (match = NoMatch) = (err # "")

(***************************************************************************)
(* Claims about inputs with several game trees.                            *)
(***************************************************************************)
\* the top-level game trees of a grammar-valid input, in the order they are
\* written, without the white space between them
RECURSIVE TopLevelTreesFrom(_, _, _, _)
TopLevelTreesFrom(in, i, st, cur) ==
    IF i > Len(in) THEN <<>>
    ELSE LET nx == GrammarNext(st, in[i])
         IN  IF st.d = 0 /\ nx.d = 0 THEN TopLevelTreesFrom(in, i + 1, nx, cur)
             ELSE IF nx.d = 0 THEN <<Append(cur, in[i])>> \o TopLevelTreesFrom(in, i + 1, nx, <<>>)
             ELSE TopLevelTreesFrom(in, i + 1, nx, Append(cur, in[i]))

TopLevelTrees(in) == TopLevelTreesFrom(in, 1, GrammarStart, <<>>)

\* the Game that ParseSGF returns for the input that is this one tree
GameOf(tree) == RunSGF(SGFStart(tree)).match.Games[1]

\* C15: for an input of k >= 1 well-formed top-level game trees separated
\* only by white space, ParseSGF returns a Match with exactly k Games and
\* the i-th Game is the one converted from the i-th tree.
C15_OneGamePerTreeInOrder ==
    (Returned /\ GrammarValid(input) /\ TopLevelTrees(input) # <<>>) =>
        /\ err = "" /\ match # NoMatch
        /\ Len(match.Games) = Len(TopLevelTrees(input))
        /\ \A i \in 1..Len(match.Games) :
               match.Games[i] = GameOf(TopLevelTrees(input)[i])

\* C15 for the inputs that have no variation
C15_WithoutVariations ==
    (RemoveVariations(input) = input) => C15_OneGamePerTreeInOrder

\* C16: for two concatenated game trees, every field of the Game built from
\* one tree is determined by that tree alone: it is the Game that the tree
\* gives when it is the whole input, whatever the other tree is.
C16_NoCrossContamination ==
    \A t1, t2 \in GameTrees :
        (Returned /\ input = t1 \o t2) =>
            /\ pc = "done" /\ Len(match.Games) = 2
            /\ match.Games[1] = GameOf(t1)
            /\ match.Games[2] = GameOf(t2)

\* two trees that differ in every field are converted: the Games differ in
\* every field
C16_Witness ==
    /\ pc = "done" /\ Len(match.Games) = 2
    /\ \E t1, t2 \in GameTrees : t1 # t2 /\ input = t1 \o t2
    /\ \A f \in DOMAIN match.Games[1] \ {"Crawford", "CrawfordGame"} :
           match.Games[1][f] # match.Games[2][f]

(***************************************************************************)
(* Claims about the rules and the result of a game.                        *)
(***************************************************************************)
VariationTokens == {"Nackgammon", "Hypergammon1", "Hypergammon2", "Hypergammon3"}

VariationNames == VariationTokens \cup {"Standard"}

\* the tokens of a colon-separated rules text
TokensOf(ru) == {ruleName(TrimSpace(t)) : t \in Range(Split(ru, <<":">>))}

\* C17: every Game that ParseSGF returns has one of the five variation
\* names, and 'Standard' when its root node names no variation token, also
\* when the root node has no rules property.
C17_VariationDefaultsToStandard ==
    (pc = "done") =>
        \A i \in 1..Len(match.Games) :
            /\ match.Games[i].Variation \in VariationNames
            /\ (TokensOf(getProperty(games[i][1], "RU")) \cap VariationTokens = {})
                   => match.Games[i].Variation = "Standard"

\* C17 for the games whose root node has a rules property that is not empty
C17_WithRules ==
    (pc = "done") =>
        \A i \in 1..Len(match.Games) :
            (getProperty(games[i][1], "RU") # <<>>) =>
                /\ match.Games[i].Variation \in VariationNames
                /\ (TokensOf(getProperty(games[i][1], "RU")) \cap VariationTokens = {})
                       => match.Games[i].Variation = "Standard"

\* the text of a rule token
TokenText(name) ==
    CASE name = "Crawford" -> <<"C", "r", "a", "w", "f", "o", "r", "d">>
      [] name = "CrawfordGame" -> <<"C", "r", "a", "w", "f", "o", "r", "d", "G", "a", "m", "e">>
      [] name = "Jacoby" -> <<"J", "a", "c", "o", "b", "y">>
      [] name = "NoCube" -> <<"N", "o", "C", "u", "b", "e">>
      [] name = "Nackgammon" -> <<"N", "a", "c", "k", "g", "a", "m", "m", "o", "n">>
      [] name = "Hypergammon1" -> <<"H", "y", "p", "e", "r", "g", "a", "m", "m", "o", "n", "1">>
      [] name = "Hypergammon2" -> <<"H", "y", "p", "e", "r", "g", "a", "m", "m", "o", "n", "2">>
      [] name = "Hypergammon3" -> <<"H", "y", "p", "e", "r", "g", "a", "m", "m", "o", "n", "3">>

\* the token occurs in the colon-separated list
Occurs(name, toks) == \E i \in DOMAIN toks : toks[i] = TokenText(name)

\* the places of the list that hold a variation token
VariationPlaces(toks) ==
    {i \in DOMAIN toks : \E v \in VariationTokens : toks[i] = TokenText(v)}

\* the last variation token of the list, 'Standard' when it has none
LastVariation(toks) ==
    IF VariationPlaces(toks) = {} THEN "Standard"
    ELSE LET last == CHOOSE i \in VariationPlaces(toks) :
                         \A j \in VariationPlaces(toks) : j <= i
         IN  CHOOSE v \in VariationTokens : toks[last] = TokenText(v)

\* C18: parseRules on a colon-separated token list and a fresh Game sets
\* Crawford, CrawfordGame and Jacoby exactly when their token occurs, clears
\* CubeEnabled exactly when NoCube occurs, sets Variation to the last
\* variation token or to 'Standard' when there is none, and changes nothing
\* else.
C18_ParseRulesSetsTheFlags ==
    (call.fn = "parseRules") =>
        LET toks == Split(call.args[1], <<":">>)
            game == call.args[2]
            g    == call.ret
        IN  /\ g.Crawford = Occurs("Crawford", toks)
            /\ g.CrawfordGame = Occurs("CrawfordGame", toks)
            /\ g.Jacoby = Occurs("Jacoby", toks)
            /\ g.CubeEnabled = ~Occurs("NoCube", toks)
            /\ g.Variation = LastVariation(toks)
            /\ \A f \in DOMAIN g \ {"Crawford", "CrawfordGame", "Jacoby",
                                    "CubeEnabled", "Variation"} : g[f] = game[f]

\* parseRules has returned for 'Crawford:CrawfordGame:Jacoby'
C18_Witness ==
    /\ call.fn = "parseRules"
    /\ call.args[1] = TokenText("Crawford") \o <<":">> \o TokenText("CrawfordGame")
                      \o <<":">> \o TokenText("Jacoby")
    /\ call.ret.Crawford /\ call.ret.CrawfordGame /\ call.ret.Jacoby
    /\ call.ret.CubeEnabled /\ call.ret.Variation = "Standard"

\* the parts of a result text <side>+<digits>[R]
ResultSide(re) == re[1]

ResultMarked(re) == re[Len(re)] = "R"

ResultDigits(re) == SubSeq(re, 3, IF ResultMarked(re) THEN Len(re) - 1 ELSE Len(re))

\* C19: parseResult on <side>+<digits>, optionally followed by R, sets
\* Winner to 0 for W and to 1 for B, Points to the value of the digits and
\* Resigned exactly when the text ends with R.
C19_ParseResultReadsTheParts ==
    (call.fn = "parseResult") =>
        LET re == call.args[1]
            g  == call.ret
        IN  /\ g.Winner = (IF ResultSide(re) = "W" THEN 0 ELSE 1)
            /\ g.Points = DigitsVal(ResultDigits(re))
            /\ g.Resigned = ResultMarked(re)

\* parseResult has returned for 'B+1R'
C19_Witness ==
    /\ call.fn = "parseResult"
    /\ call.args[1] = <<"B", "+", "1", "R">>
    /\ call.ret.Winner = 1 /\ call.ret.Points = 1 /\ call.ret.Resigned

\* C20: decodePoint maps each of the 26 letters to its offset from 'a':
\* 'a'..'x' to 0..23, 'y' to 24 (bar) and 'z' to 25 (off).
C20_DecodePointMapsTheLetters ==
    \A k \in 0..25 :
        (call.fn = "decodePoint" /\ call.args[1] = Lower[k + 1]) =>
            /\ call.ret = k
            /\ (call.args[1] = "y") => call.ret = Bar
            /\ (call.args[1] = "z") => call.ret = Off

\* decodePoint has returned for the letter of the bar
C20_Witness ==
    call.fn = "decodePoint" /\ call.args[1] = "y" /\ call.ret = 24

(***************************************************************************)
(* Claims about the analysis of moves and cube decisions.                  *)
(***************************************************************************)
\* the value is a bare integer: digits, with or without a sign, and white
\* space around them
IsBareInteger(v) ==
    LET t    == TrimSpace(v)
        body == IF t # <<>> /\ Head(t) \in {"+", "-"} THEN Tail(t) ELSE t
    IN  body # <<>> /\ \A i \in DOMAIN body : IsDigit(body[i])

\* the rows of an A property: its values without a leading bare integer
RowsOf(values) ==
    IF values # <<>> /\ IsBareInteger(values[1]) THEN Tail(values) ELSE values

\* the rows that have at least 10 white-space-separated tokens, in row order
RECURSIVE LongRows(_)
LongRows(rows) ==
    IF rows = <<>> THEN <<>>
    ELSE (IF Len(Fields(Head(rows))) >= 10 THEN <<Head(rows)>> ELSE <<>>)
         \o LongRows(Tail(rows))

\* the MoveOptions of a move record
OptionsOf(mr) == IF mr.Analysis = Nil THEN <<>> ELSE mr.Analysis.Moves

\* C21: parseMoveAnalysis returns, with one MoveOption per row of at least
\* 10 tokens, in row order, after a leading bare integer has been removed;
\* a row with fewer tokens gives no MoveOption and leaves the options of
\* the other rows as they are.
C21_OneOptionPerLongRow ==
    (call.fn = "parseMoveAnalysis") =>
        LET long == LongRows(RowsOf(call.args[1]))
            opts == OptionsOf(call.ret)
        IN  /\ Len(opts) = Len(long)
            /\ \A i \in DOMAIN opts :
                   OptionsOf(parseMoveAnalysis(SetProperty(EmptyNode, "A", <<long[i]>>),
                                               call.args[2]))
                       = <<[opts[i] EXCEPT !.AnalysisDepth = 0]>>
            /\ \A i \in DOMAIN opts :
                   opts[i].AnalysisDepth =
                       IF RowsOf(call.args[1]) = call.args[1] THEN 0
                       ELSE Atoi(TrimSpace(call.args[1][1])).v

\* a short row stands between two long rows, after the shared depth: two
\* options were produced
C21_Witness ==
    /\ call.fn = "parseMoveAnalysis"
    /\ Len(call.args[1]) = 4
    /\ IsBareInteger(call.args[1][1])
    /\ Len(Fields(call.args[1][2])) >= 10
    /\ Len(Fields(call.args[1][3])) \in 1..9
    /\ Len(Fields(call.args[1][4])) >= 10
    /\ call.args[1][2] # call.args[1][4]
    /\ Len(OptionsOf(call.ret)) = 2

WithOtherHead(row) ==
    JoinTokens(<<<<"X">>, <<"v">>, <<"9">>, <<"1N">>, <<"0">>, <<"1.5">>, <<"7">>>>
               \o Drop(Fields(row), 7))

\* the CubeAnalysis that parseCubeAnalysis gives for a row and a record
CubeAnalysisOf(row, mr) ==
    parseCubeAnalysis(SetProperty(EmptyNode, "DA", <<row>>), mr).CubeAnalysis

\* C23: for a first row of at least 13 tokens, the probabilities are read
\* from tokens [7]..[11], the cubeless equity from [12], the no-redouble
\* equity from [13] when there are at least 16 tokens, and every field of
\* the CubeAnalysis is the same when tokens [0]..[6] are changed.
C23_LeadingTokensAreIgnored ==
    (call.fn = "parseCubeAnalysis" /\ Len(Fields(call.args[1])) >= 13) =>
        LET parts == Fields(call.args[1])
            ca    == call.ret.CubeAnalysis
        IN  /\ ca # Nil
            /\ ca.Player1WinRate = ParseFloat(parts[8]).v
            /\ ca.Player2WinRate = ParseFloat(parts[9]).v
            /\ ca.Player2GammonRate = ParseFloat(parts[10]).v
            /\ ca.Player1GammonRate = ParseFloat(parts[11]).v
            /\ ca.Player1BackgammonRate = ParseFloat(parts[12]).v
            /\ ca.CubelessEquity = ParseFloat(parts[13]).v
            /\ ca.CubefulNoDouble = (IF Len(parts) >= 16 THEN ParseFloat(parts[14]).v ELSE 0)
            /\ ca = CubeAnalysisOf(WithOtherHead(call.args[1]), call.args[2])

\* C23 for every field but AnalysisDepth
C23_ApartFromTheDepth ==
    (call.fn = "parseCubeAnalysis" /\ Len(Fields(call.args[1])) >= 13) =>
        /\ call.ret.CubeAnalysis # Nil
        /\ [call.ret.CubeAnalysis EXCEPT !.AnalysisDepth = 0]
               = [CubeAnalysisOf(WithOtherHead(call.args[1]), call.args[2])
                     EXCEPT !.AnalysisDepth = 0]

\* the no-redouble cubeful equity parsed from a cube row
NoDoubleOf(row) ==
    IF Len(Fields(row)) >= 16 THEN ParseFloat(Fields(row)[14]).v ELSE 0

\* C29: the take/pass and double/take equities stay 0, so for a cube row of
\* at least 13 tokens BestAction is 'pass' for every take or drop record,
\* 'double' for a double record exactly when the parsed no-redouble equity
\* is negative and 'no_double' otherwise, and empty for a checker move.
C29_BestActionInference ==
    (call.fn = "parseCubeAnalysis" /\ Len(Fields(call.args[1])) >= 13) =>
        LET type == call.args[2].Type
            ca   == call.ret.CubeAnalysis
        IN  /\ ca # Nil
            /\ ca.CubefulDoubleTake = 0 /\ ca.CubefulDoublePass = 0
            /\ (type \in {MoveTypeTake, MoveTypeDrop}) => ca.BestAction = "pass"
            /\ (type = MoveTypeDouble) =>
                   ca.BestAction = IF NoDoubleOf(call.args[1]) < 0 THEN "double"
                                   ELSE "no_double"
            /\ (type = MoveTypeNormal) => ca.BestAction = ""

\* a double record whose row has a negative no-redouble equity: 'double'
C29_Witness ==
    /\ call.fn = "parseCubeAnalysis"
    /\ call.args[2].Type = MoveTypeDouble
    /\ NoDoubleOf(call.args[1]) < 0
    /\ call.ret.CubeAnalysis # Nil
    /\ call.ret.CubeAnalysis.BestAction = "double"

(***************************************************************************)
(* Claims about money games and about the dice.                            *)
(***************************************************************************)
\* a Game without its Crawford and Jacoby flags
WithoutRuleFlags(g) ==
    [g EXCEPT !.Crawford = FALSE, !.CrawfordGame = FALSE, !.Jacoby = FALSE]

\* the Games ParseMAT returns for the input with its header changed to a
\* match of 3 points
GamesOfMatch(ls) == RunMAT(<<MatchHeaderLine(3)>> \o Tail(ls), MATStart).ret.Games

\* C24: for a file whose header is '0 point match', followed by k >= 1 game
\* sections, ParseMAT returns MatchLength 0 and exactly k Games, the Games
\* it returns when the header has a positive length, apart from the
\* Crawford and Jacoby flags: no line after the header is skipped.
C24_MoneyGameSkipsNoLine ==
    (MATReturned /\ lines \in OneGameInputs \cup ManyGameInputs
                 /\ lines[1] = MatchHeaderLine(0)) =>
        /\ m.pc = "done"
        /\ m.ret.Metadata.MatchLength = 0
        /\ Len(m.ret.Games) = Len(GameNumbersOf(lines))
        /\ Len(m.ret.Games) = Len(GamesOfMatch(lines))
        /\ \A i \in DOMAIN m.ret.Games :
               WithoutRuleFlags(m.ret.Games[i]) = WithoutRuleFlags(GamesOfMatch(lines)[i])

\* with a blank line after the header, a money game gives the Games of a
\* match of positive length, apart from the flags
C24_WithBlankLineAfterHeader ==
    (MATReturned /\ lines \in OneGameInputs \cup ManyGameInputs
                 /\ lines[1] = MatchHeaderLine(0) /\ lines[2] = Blank) =>
        /\ m.pc = "done"
        /\ m.ret.Metadata.MatchLength = 0
        /\ Len(m.ret.Games) = Len(GamesOfMatch(lines))
        /\ \A i \in DOMAIN m.ret.Games :
               WithoutRuleFlags(m.ret.Games[i]) = WithoutRuleFlags(GamesOfMatch(lines)[i])

\* C25: both dice of every checker-move and dice-set record of a Match that
\* ParseSGF returns lie in 1..6.
C25_DiceLieInOneToSix ==
    (pc = "done") =>
        \A i \in DOMAIN match.Games :
            \A j \in DOMAIN match.Games[i].Moves :
                (match.Games[i].Moves[j].Type \in {MoveTypeNormal, MoveTypeSetDice}) =>
                    /\ match.Games[i].Moves[j].Dice[1] \in 1..6
                    /\ match.Games[i].Moves[j].Dice[2] \in 1..6

\* C25 for the nodes whose two dice characters are digits of 1..6
C25_ForDiceDigits ==
    (pc = "done" /\ input \in DiceInputs
                 /\ \A k \in {Len(input) - 3, Len(input) - 2} :
                        input[k] \in {"1", "2", "3", "4", "5", "6"}) =>
        C25_DiceLieInOneToSix

(***************************************************************************)
(* Claims about the round trip of the move encoding.                       *)
(***************************************************************************)
\* the stored point a piece of the readable notation stands for on a side:
\* the words bar and off, and a letter a..x, mirrored back for side 1;
\* -1 when the piece names no point
PointOfRendered(piece, player) ==
    IF piece = <<"b", "a", "r">> THEN Bar
    ELSE IF piece = <<"o", "f", "f">> THEN Off
    ELSE IF Len(piece) = 1 /\ piece[1] \in Range(SubSeq(Lower, 1, 24))
         THEN (IF player = 1 THEN 23 - decodePoint(piece[1]) ELSE decodePoint(piece[1]))
    ELSE -1

\* the stored points of the from/to pairs of a rendered move
RECURSIVE PointsOfPairs(_, _)
PointsOfPairs(pairs, player) ==
    IF pairs = <<>> THEN <<>>
    ELSE LET ends == Split(pairs[1], <<"/">>)
         IN  [k \in DOMAIN ends |-> PointOfRendered(ends[k], player)]
             \o PointsOfPairs(Tail(pairs), player)

DecodeRendered(text, player) ==
    IF text = <<"n", "o", " ", "m", "o", "v", "e">> THEN <<>>
    ELSE PointsOfPairs(Split(text, <<" ">>), player)

\* the encoded text of a list of stored points, a point-code letter for each
\* value of 0..25
EncodedText(points) ==
    [k \in DOMAIN points |->
        IF points[k] \in 0..25 THEN Lower[points[k] + 1] ELSE "?"]

\* the slots of a Move array up to its first -1
SlotsRead(move) ==
    IF \E i \in DOMAIN move : move[i] = -1
    THEN SubSeq(move, 1, CHOOSE i \in DOMAIN move :
                            move[i] = -1 /\ \A j \in 1..(i - 1) : move[j] # -1)
    ELSE move

\* the array that decoding a rendered move and encoding it again gives
EncodedAgain(text, player) ==
    encodedMoveLoop(EncodedText(DecodeRendered(text, player)), ZeroMove, 0, 0)

\* C26: for every Move array whose pairs lie in 0..25 and end at a -1, and for
\* either side, decoding the string FormatMove renders back to points and
\* encoding these again reproduces the array up to its -1.
C26_RenderedMoveRoundTrips ==
    (call.fn = "FormatMove") =>
        SlotsRead(EncodedAgain(call.ret, call.args[2])) = SlotsRead(call.args[1])

\* C26 for side 0
C26_ForSideZero ==
    (call.fn = "FormatMove" /\ call.args[2] = 0) => C26_RenderedMoveRoundTrips

\* C26 for the arrays that hold board points only
C26_ForBoardPoints ==
    (call.fn = "FormatMove" /\ \A i \in DOMAIN call.args[1] : call.args[1][i] < Bar) =>
        C26_RenderedMoveRoundTrips

\* FormatMove gives distinct arrays distinct strings for each side
C26_FormatMoveIsInjective ==
    (call.fn = "FormatMove") =>
        \A other \in FnMoveArrays :
            (FormatMove(other, call.args[2]) = call.ret) => other = call.args[1]

(***************************************************************************)
(* Claims about the properties the tree parser stores.                     *)
(***************************************************************************)
\* the nodes the parser holds: the one being read, those of the game being
\* read and those of the games read
StoredNodes ==
    {node} \cup Range(root) \cup UNION {Range(games[g]) : g \in DOMAIN games}

\* C27: every property stored in a node has a name of one or two letters and
\* at least one value: a name followed by no '[...]' value is not recorded.
C27_StoredPropertiesHaveValues ==
    \A nd \in StoredNodes :
        \A name \in DOMAIN nd : Len(name) \in {1, 2} /\ nd[name] # <<>>

\* the names of the stored properties have one or two letters
C27_StoredNamesAreShort ==
    \A nd \in StoredNodes : \A name \in DOMAIN nd : Len(name) \in {1, 2}

\* a property whose name is followed by a value is stored with a value
C27_InputsWithoutBareNames ==
    (input \notin BareNameInputs \cup StrayInputs \cup TruncatedInputs) =>
        C27_StoredPropertiesHaveValues

(***************************************************************************)
(* Claims about the luck of a dice set.                                    *)
(***************************************************************************)
\* the tokens of the luck property of the node of the input
LuckTokens == Fields(getProperty(RunSGF(SGFStart(input)).games[1][1], "LU"))

\* C28: the dice-set record stored for a node with DI of two characters or
\* more and LU of two tokens or more carries a Luck with that rating and value.
C28_DiceSetCarriesItsLuck ==
    (pc = "done" /\ input \in LuckInputs /\ Len(LuckTokens) >= 2) =>
        \A j \in DOMAIN match.Games[1].Moves :
            (match.Games[1].Moves[j].Type = MoveTypeSetDice) =>
                /\ match.Games[1].Moves[j].Luck # Nil
                /\ match.Games[1].Moves[j].Luck.Rating = LuckTokens[1]
                /\ match.Games[1].Moves[j].Luck.Value = ParseFloat(LuckTokens[2]).v

\* the record of a checker move with LU of two tokens or more carries the Luck
C28_MoveCarriesItsLuck ==
    (pc = "done" /\ input \in LuckInputs /\ Len(LuckTokens) >= 2) =>
        \A j \in DOMAIN match.Games[1].Moves :
            (match.Games[1].Moves[j].Type = MoveTypeNormal) =>
                /\ match.Games[1].Moves[j].Luck # Nil
                /\ match.Games[1].Moves[j].Luck.Rating = LuckTokens[1]
                /\ match.Games[1].Moves[j].Luck.Value = ParseFloat(LuckTokens[2]).v

(***************************************************************************)
(* Claims about termination.                                               *)
(***************************************************************************)
\* the number of characters of the input the parser has consumed: those read
\* from the reader, less the one that is pushed back
Consumed(q) == q.reader - (IF q.hasChar THEN 1 ELSE 0)

\* one iteration of a loop of the parser consumes a character or leaves the loop
IterationConsumesOrExits == Consumed(p') > Consumed(p) \/ pc' # pc

\* C30: ParseSGF terminates on every input: each iteration of the loops of
\* parseGameTree, parseGame, parseNode, parseProperty, parsePropertyValue and
\* skipWhitespace consumes at least one character or leaves its loop, and the
\* call eventually returns a Match or an error.
C30_ParseSGFTerminates ==
    /\ [][IterationConsumesOrExits]_vars
    /\ <>Returned

\* a call that returned a Match after it consumed an input with variations,
\* values and several trees to its end
C30_Witness ==
    /\ pc = "done"
    /\ input \in VariationInputs
    /\ Consumed(p) = Len(input)
    /\ Len(input) > 10

\* no step gives back more than the one character that is pushed back
C30_ConsumedNeverShrinks == [][Consumed(p') >= Consumed(p)]_vars

=============================================================================
